---- MODULE Spec2Model ----
(***************************************************************************)
(* A model of the pose retargeting code: Pose.scale (src/Pose.py) with the *)
(* anthropometric tables and the face/hand/foot aligners (src/scaling.py)  *)
(* and the support point heuristic (src/anchor_point.py).                  *)
(*                                                                         *)
(* Numbers.  The code computes on binary64 floats.  The model computes on  *)
(* exact rationals <<n, d>> (d > 0, lowest terms); only the square root of *)
(* np.hypot / np.linalg.norm is rounded (see Hypot).  Python's None is the *)
(* empty tuple <<>>: a point is <<x, y>>, a declared age is <<a>>, a       *)
(* declared gender is <<g>>.                                               *)
(***************************************************************************)
EXTENDS Integers, Sequences, FiniteSets, TLC

None == <<>>

Some(v) == <<v>>

IsNone(v) == v = <<>>

(***************************************************************************)
(* Exact rational arithmetic.                                              *)
(***************************************************************************)
Abs(n) == IF n < 0 THEN -n ELSE n

RECURSIVE GCD(_, _)
GCD(a, b) == IF b = 0 THEN a ELSE GCD(b, a % b)

Rat(n, d) ==
  LET s == IF d < 0 THEN -1 ELSE 1
      g == GCD(Abs(n), Abs(d))
  IN  <<(s * n) \div g, (s * d) \div g>>

R(n) == <<n, 1>>

\* a + b, the whole parts added apart so that no intermediate value is
\* larger than the result's numerator
RatAdd(a, b) ==
  IF a[2] = 1 /\ b[2] = 1 THEN <<a[1] + b[1], 1>>
  ELSE LET g == GCD(a[2], b[2])
           l == (a[2] \div g) * b[2]
           whole == a[1] \div a[2] + b[1] \div b[2]
           part == (a[1] % a[2]) * (b[2] \div g) + (b[1] % b[2]) * (a[2] \div g)
           h == GCD(part, l)
       IN  <<whole * (l \div h) + part \div h, l \div h>>

RatNeg(a) == <<-a[1], a[2]>>

RatSub(a, b) == RatAdd(a, RatNeg(b))

RatMul(a, b) ==
  IF a[2] = 1 /\ b[2] = 1 THEN <<a[1] * b[1], 1>>
  ELSE LET g1 == GCD(Abs(a[1]), b[2])
           g2 == GCD(Abs(b[1]), a[2])
       IN  Rat((a[1] \div g1) * (b[1] \div g2), (a[2] \div g2) * (b[2] \div g1))

\* a / b for b # 0
RatDiv(a, b) == RatMul(a, Rat(b[2], b[1]))

\* n1/d1 < n2/d2, by whole parts and then the reciprocals of the rests
RECURSIVE Less(_, _, _, _)
Less(n1, d1, n2, d2) ==
  LET q1 == n1 \div d1
      q2 == n2 \div d2
      r1 == n1 % d1
      r2 == n2 % d2
  IN  IF q1 # q2 THEN q1 < q2
      ELSE IF r2 = 0 THEN FALSE
      ELSE IF r1 = 0 THEN TRUE
      ELSE Less(d2, r2, d1, r1)

RatLT(a, b) == Less(a[1], a[2], b[1], b[2])

RatLE(a, b) == ~RatLT(b, a)

RatAbs(a) == <<Abs(a[1]), a[2]>>

RatMin(a, b) == IF RatLT(b, a) THEN b ELSE a

RatMax(a, b) == IF RatLT(a, b) THEN b ELSE a

\* the sum of a sequence of numbers, by halves
RECURSIVE RatSum(_)
RatSum(s) ==
  IF s = <<>> THEN R(0)
  ELSE IF Len(s) = 1 THEN s[1]
  ELSE RatAdd(RatSum(SubSeq(s, 1, Len(s) \div 2)),
              RatSum(SubSeq(s, Len(s) \div 2 + 1, Len(s))))

\* np.mean of a non-empty sequence of numbers
Mean(s) == RatDiv(RatSum(s), R(Len(s)))

\* floor(sqrt(n)) for a natural n, by bisection on [lo, hi)
RECURSIVE IsqrtIn(_, _, _)
IsqrtIn(n, lo, hi) ==
  IF hi - lo <= 1 THEN lo
  ELSE LET mid == (lo + hi) \div 2
       IN  IF mid * mid <= n THEN IsqrtIn(n, mid, hi) ELSE IsqrtIn(n, lo, mid)

Isqrt(n) == IsqrtIn(n, 0, 46341)

\* The precision of a rounded square root: a root that is not rational is
\* cut to a multiple of 1/(D * SqrtScale), D the operands' common
\* denominator.
SqrtScale == 100

\* operands on a common denominator are cut to this size before squaring
SqrtOperandMax == 30000

(***************************************************************************)
(* np.hypot(dx, dy): exact when the root is rational (and the operands are *)
(* below SqrtOperandMax), otherwise cut as said at SqrtScale.              *)
(***************************************************************************)
Hypot(dx, dy) ==
  IF dx[1] = 0 /\ dy[1] = 0 THEN R(0) ELSE
  LET g == GCD(dx[2], dy[2])
      D == (dx[2] \div g) * dy[2]
      a == Abs(dx[1]) * (D \div dx[2])
      b == Abs(dy[1]) * (D \div dy[2])
      k == (IF a < b THEN b ELSE a) \div SqrtOperandMax + 1
      N == (a \div k) * (a \div k) + (b \div k) * (b \div k)
      r == Isqrt(N)
  IN  IF k = 1 /\ r * r = N THEN Rat(r, D)
      ELSE IF k = 1 /\ N <= 2147483647 \div (SqrtScale * SqrtScale)
      THEN Rat(Isqrt(N * SqrtScale * SqrtScale), D * SqrtScale)
      ELSE Rat(r * k, D)

(***************************************************************************)
(* The anthropometric tables of src/scaling.py.                            *)
(***************************************************************************)
Genders == {"male", "female"}

\* height_data[gender][age] for age 1..20, in cm
height_data ==
  [male |-> <<75, 87, 96, 102, 108, 115, 120, 125, 130, 137, 143, 149,
              156, 163, 169, 173, 175, 176, 176, 176>>,
   female |-> <<74, 85, 95, 100, 106, 113, 118, 123, 129, 135, 141, 148,
                155, 160, 163, 164, 164, 165, 165, 165>>]

\* get_height_by_age_gender(age, gender), age an integer
get_height_by_age_gender(age, gender) ==
  LET age_data == IF gender \in DOMAIN height_data THEN height_data[gender]
                  ELSE height_data["female"]
  IN  IF age >= 20 THEN R(age_data[20])
      ELSE IF age \in DOMAIN age_data THEN R(age_data[age])
      ELSE IF age < 1 THEN R(age_data[1])
      ELSE R(age_data[20])

RatioKeys ==
  <<"head_ratio", "torso_ratio", "arm_ratio", "leg_ratio", "hand_ratio",
    "foot_ratio", "eye_factor", "mouth_factor", "jaw_factor", "nose_factor",
    "face_contour_factor">>

\* one row of ratios, each given in hundredths
Row(head, torso, arm, leg, hand, foot, eye, mouth, jaw, nose, contour) ==
  [head_ratio |-> Rat(head, 100), torso_ratio |-> Rat(torso, 100),
   arm_ratio |-> Rat(arm, 100), leg_ratio |-> Rat(leg, 100),
   hand_ratio |-> Rat(hand, 100), foot_ratio |-> Rat(foot, 100),
   eye_factor |-> Rat(eye, 100), mouth_factor |-> Rat(mouth, 100),
   jaw_factor |-> Rat(jaw, 100), nose_factor |-> Rat(nose, 100),
   face_contour_factor |-> Rat(contour, 100)]

\* the base adult proportions
base_factors == Row(15, 36, 20, 30, 100, 100, 100, 100, 100, 100, 100)

\* age ranges whose last bracket (17 to 19) has no upper end below 120
age_ranges_open_ended ==
  << <<0, 5, Row(25, 30, 15, 30, 80, 80, 150, 120, 130, 80, 140)>>,
     <<6, 7, Row(23, 32, 17, 29, 85, 85, 140, 110, 120, 85, 130)>>,
     <<8, 10, Row(21, 34, 18, 28, 90, 90, 130, 110, 115, 90, 120)>>,
     <<11, 13, Row(19, 35, 19, 27, 100, 100, 120, 110, 105, 100, 110)>>,
     <<14, 16, Row(17, 36, 19, 28, 105, 105, 110, 110, 100, 100, 105)>>,
     <<17, 120, Row(17, 36, 20, 29, 110, 110, 100, 100, 100, 100, 105)>> >>

\* age ranges whose bracket 17 to 19 has a head ratio of its own, 0.16
age_ranges_late_teens ==
  << <<0, 5, Row(25, 30, 15, 30, 80, 80, 150, 120, 130, 80, 140)>>,
     <<6, 7, Row(23, 32, 17, 29, 85, 85, 140, 110, 120, 85, 130)>>,
     <<8, 10, Row(21, 34, 18, 28, 90, 90, 130, 110, 115, 90, 120)>>,
     <<11, 13, Row(19, 35, 19, 27, 100, 100, 120, 110, 105, 100, 110)>>,
     <<14, 16, Row(17, 36, 19, 28, 105, 105, 110, 110, 100, 100, 105)>>,
     <<17, 19, Row(16, 36, 20, 29, 110, 110, 100, 100, 100, 100, 105)>> >>

\* age_ranges: <<min_age, max_age, adjustments>>
age_ranges ==
  << <<0, 5, Row(25, 30, 15, 30, 80, 80, 150, 120, 130, 80, 140)>>,
     <<6, 7, Row(23, 32, 17, 29, 85, 85, 140, 110, 120, 85, 130)>>,
     <<8, 10, Row(21, 34, 18, 28, 90, 90, 130, 110, 115, 90, 120)>>,
     <<11, 13, Row(19, 35, 19, 27, 100, 100, 120, 110, 105, 100, 110)>>,
     <<14, 16, Row(17, 36, 19, 28, 105, 105, 110, 110, 100, 100, 105)>>,
     <<17, 19, Row(17, 36, 20, 29, 110, 110, 100, 100, 100, 100, 105)>> >>

\* the first matching bracket's adjustments, else the adult base
RECURSIVE RangeLookup(_, _)
RangeLookup(age, i) ==
  IF i > Len(age_ranges) THEN base_factors
  ELSE IF age_ranges[i][1] <= age /\ age <= age_ranges[i][2] THEN age_ranges[i][3]
  ELSE RangeLookup(age, i + 1)

\* the gender-based adjustments of get_scaling_factors
GenderAdjust(f, gender) ==
  IF gender = "female"
  THEN [f EXCEPT !.jaw_factor = RatMul(@, Rat(95, 100)),
                 !.mouth_factor = RatMul(@, Rat(110, 100)),
                 !.face_contour_factor = RatMul(@, Rat(105, 100))]
  ELSE f

\* the checks of get_scaling_factors without the upper bound on the age
FactorsErrorNoUpperBound(age, gender) ==
  IF IsNone(gender) \/ gender[1] \notin {"male", "female"} THEN "ValueError"
  ELSE IF IsNone(age) THEN "TypeError"
  ELSE IF ~(0 <= age[1]) THEN "ValueError"
  ELSE ""

(***************************************************************************)
(* get_scaling_factors(age, gender) on an optional age and an optional     *)
(* gender: the exception it raises ("" when it returns).  None is not in   *)
(* ["male", "female"]; 0 <= None raises TypeError.                         *)
(***************************************************************************)
FactorsError(age, gender) ==
  IF IsNone(gender) \/ gender[1] \notin {"male", "female"} THEN "ValueError"
  ELSE IF IsNone(age) THEN "TypeError"
  ELSE IF ~(0 <= age[1] /\ age[1] <= 120) THEN "ValueError"
  ELSE ""

\* get_scaling_factors(age, gender) where it returns
get_scaling_factors(age, gender) == GenderAdjust(RangeLookup(age, 1), gender)

(***************************************************************************)
(* The skeleton: the 18 joints and their adjacency (src/Pose.py).          *)
(***************************************************************************)
COCO_KEYPOINTS_ORDER ==
  <<"Nose", "Neck", "RShoulder", "RElbow", "RWrist", "LShoulder", "LElbow",
    "LWrist", "RHip", "RKnee", "RAnkle", "LHip", "LKnee", "LAnkle", "REye",
    "LEye", "REar", "LEar">>

Joints == {COCO_KEYPOINTS_ORDER[i] : i \in 1..Len(COCO_KEYPOINTS_ORDER)}

\* COCO_KEYPOINT_NAMES[idx], idx the 0-based index of the array
COCO_KEYPOINT_NAMES(idx) == COCO_KEYPOINTS_ORDER[idx + 1]

connections ==
  [Neck |-> <<"Nose", "RShoulder", "LShoulder", "RHip", "LHip">>,
   RShoulder |-> <<"RElbow", "Neck">>,
   RElbow |-> <<"RWrist", "RShoulder">>,
   RWrist |-> <<"RElbow">>,
   LShoulder |-> <<"LElbow", "Neck">>,
   LElbow |-> <<"LWrist", "LShoulder">>,
   LWrist |-> <<"LElbow">>,
   RHip |-> <<"RKnee", "Neck">>,
   RKnee |-> <<"RAnkle", "RHip">>,
   RAnkle |-> <<"RKnee">>,
   LHip |-> <<"LKnee", "Neck">>,
   LKnee |-> <<"LAnkle", "LHip">>,
   LAnkle |-> <<"LKnee">>,
   Nose |-> <<"Neck", "REye", "LEye">>,
   REye |-> <<"Nose", "REar">>,
   LEye |-> <<"Nose", "LEar">>,
   REar |-> <<"REye">>,
   LEar |-> <<"LEye">>]

(***************************************************************************)
(* The support point heuristic (src/anchor_point.py).  The keypoints array *)
(* is a function on 0..17 of <<x, y, confidence>>.                         *)
(***************************************************************************)
\* a confidence that no threshold lets through
no_conf == R(0)

default_conf == Rat(9, 10)

confidence_threshold == Rat(1, 10)

vertical_tolerance == R(5)

dict_to_keypoints_array(keypoint_dict) ==
  [i \in 0..17 |->
     LET name == COCO_KEYPOINTS_ORDER[i + 1]
     IN  IF name \in DOMAIN keypoint_dict
         THEN <<keypoint_dict[name][1], keypoint_dict[name][2], default_conf>>
         ELSE <<R(0), R(0), R(0)>>]

Visible(keypoints, idx, conf_thresh) == RatLT(conf_thresh, keypoints[idx][3])

\* estimate_midhip: the midpoint of RHip (8) and LHip (11), or None
estimate_midhip(keypoints, conf_thresh) ==
  IF Visible(keypoints, 8, conf_thresh) /\ Visible(keypoints, 11, conf_thresh)
  THEN <<RatDiv(RatAdd(keypoints[8][1], keypoints[11][1]), R(2)),
         RatDiv(RatAdd(keypoints[8][2], keypoints[11][2]), R(2))>>
  ELSE None

\* the indices of s that are visible, in order
SelectIdx(s, keypoints, conf_thresh) ==
  SelectSeq(s, LAMBDA idx : Visible(keypoints, idx, conf_thresh))

Column(keypoints, idxs, c) == [k \in 1..Len(idxs) |-> keypoints[idxs[k]][c]]

AllIdx == [k \in 1..18 |-> k - 1]

\* the weights of estimate_COM and their sum total_mass, in tenths
torso_mass == 5

rleg_mass == 2

lleg_mass == 2

arms_mass == 1

\* the mass that estimate_COM samples: torso and legs, without the arms
sampled_mass == torso_mass + rleg_mass + lleg_mass

total_mass == torso_mass + rleg_mass + lleg_mass + arms_mass

estimate_COM(keypoints, conf_thresh) ==
  LET midhip == estimate_midhip(keypoints, conf_thresh)
      torso_vis == SelectIdx(<<1, 2, 5>>, keypoints, conf_thresh)
      torso_x == Column(keypoints, torso_vis, 1)
                   \o (IF IsNone(midhip) THEN <<>> ELSE <<midhip[1]>>)
      torso_y == Column(keypoints, torso_vis, 2)
                   \o (IF IsNone(midhip) THEN <<>> ELSE <<midhip[2]>>)
      visible == SelectIdx(AllIdx, keypoints, conf_thresh)
  IN  IF Len(torso_x) = 0
      THEN IF Len(visible) = 0
           THEN <<Mean(Column(keypoints, AllIdx, 1)), Mean(Column(keypoints, AllIdx, 2))>>
           ELSE <<Mean(Column(keypoints, visible, 1)), Mean(Column(keypoints, visible, 2))>>
      ELSE
        LET torso_center == <<Mean(torso_x), Mean(torso_y)>>
            leg_center(hip_idx, ankle_idx) ==
              IF Visible(keypoints, hip_idx, conf_thresh)
                   /\ Visible(keypoints, ankle_idx, conf_thresh)
              THEN <<RatDiv(RatAdd(keypoints[hip_idx][1], keypoints[ankle_idx][1]), R(2)),
                     RatDiv(RatAdd(keypoints[hip_idx][2], keypoints[ankle_idx][2]), R(2))>>
              ELSE IF Visible(keypoints, hip_idx, conf_thresh)
              THEN <<keypoints[hip_idx][1], keypoints[hip_idx][2]>>
              ELSE torso_center
            rleg == leg_center(8, 10)
            lleg == leg_center(11, 13)
            com(c) ==
              RatDiv(RatAdd(RatAdd(RatMul(torso_center[c], R(torso_mass)),
                                   RatMul(rleg[c], R(rleg_mass))),
                            RatMul(lleg[c], R(lleg_mass))),
                     R(total_mass))
        IN  <<com(1), com(2)>>

\* the groups with the knees before the ankles
groups_knees_first == << <<9, 12>>, <<10, 13>>, <<8, 11>>, <<1>> >>

\* Candidate groups in priority: ankles, knees, hips, neck
groups == << <<10, 13>>, <<9, 12>>, <<8, 11>>, <<1>> >>

\* a stable sort of at most two indices by y descending
SortByYDesc(keypoints, vis) ==
  IF Len(vis) = 2 /\ RatLT(keypoints[vis[1]][2], keypoints[vis[2]][2])
  THEN <<vis[2], vis[1]>>
  ELSE vis

\* the visible points within the tolerance of the lowest one, in order
RECURSIVE Candidates(_, _, _, _)
Candidates(keypoints, sorted, top_y, tol) ==
  IF sorted = <<>> THEN <<>>
  ELSE IF RatLE(RatAbs(RatSub(keypoints[Head(sorted)][2], top_y)), tol)
       THEN <<Head(sorted)>> \o Candidates(keypoints, Tail(sorted), top_y, tol)
       ELSE Candidates(keypoints, Tail(sorted), top_y, tol)

\* the lowest visible point of the group, whatever the center of mass
LowestInGroup(keypoints, vis, COM_x, tol) == SortByYDesc(keypoints, vis)[1]

\* the choice inside the first group with a visible point
ChooseInGroup(keypoints, vis, COM_x, tol) ==
  LET sorted == SortByYDesc(keypoints, vis)
      top_y == keypoints[sorted[1]][2]
      cand == Candidates(keypoints, sorted, top_y, tol)
      off(idx) == RatAbs(RatSub(keypoints[idx][1], COM_x))
  IN  IF Len(cand) = 1 THEN cand[1]
      ELSE IF RatLT(off(cand[2]), off(cand[1])) THEN cand[2]
      ELSE cand[1]

RECURSIVE ChooseFrom(_, _, _, _, _)
ChooseFrom(keypoints, g, COM_x, conf_thresh, tol) ==
  IF g > Len(groups) THEN None
  ELSE LET vis == SelectIdx(groups[g], keypoints, conf_thresh)
       IN  IF Len(vis) = 0 THEN ChooseFrom(keypoints, g + 1, COM_x, conf_thresh, tol)
           ELSE Some(COCO_KEYPOINT_NAMES(ChooseInGroup(keypoints, vis, COM_x, tol)))

\* choose_main_support_with_gravity: Some(joint name) or None
choose_main_support_with_gravity(keypoints) ==
  LET COM == estimate_COM(keypoints, confidence_threshold)
  IN  ChooseFrom(keypoints, 1, COM[1], confidence_threshold, vertical_tolerance)

(***************************************************************************)
(* A Pose is a record                                                      *)
(*   body        the dict of present joints: a function name -> point      *)
(*   body_keys   the insertion order of the dict's keys                    *)
(*   face, right_hand, left_hand, right_foot, left_foot                    *)
(*               sequences of points or None                               *)
(*   canvas_width, canvas_height, input_gender, input_age                  *)
(***************************************************************************)
calculate_distance(p1, p2) == Hypot(RatSub(p2[1], p1[1]), RatSub(p2[2], p1[2]))

HasAll(body, names) == names \subseteq DOMAIN body

\* guess_gender with "male" from a ratio of 1.5 on
guess_gender_from_threshold(self) ==
  IF ~IsNone(self.input_gender) THEN self.input_gender
  ELSE IF ~HasAll(self.body, {"Neck", "RHip", "RKnee", "RAnkle"}) THEN None
  ELSE LET body == self.body
           torso_length == calculate_distance(body["Neck"], body["RHip"])
           leg_length == RatAdd(calculate_distance(body["RHip"], body["RKnee"]),
                                calculate_distance(body["RKnee"], body["RAnkle"]))
       IN  IF RatLT(R(0), torso_length)
           THEN IF RatLE(Rat(3, 2), RatDiv(leg_length, torso_length))
                THEN Some("male") ELSE Some("female")
           ELSE None

\* Pose.guess_gender: Some(gender) or None
guess_gender(self) ==
  IF ~IsNone(self.input_gender) THEN self.input_gender
  ELSE IF ~HasAll(self.body, {"Neck", "RHip", "RKnee", "RAnkle"}) THEN None
  ELSE LET body == self.body
           torso_length == calculate_distance(body["Neck"], body["RHip"])
           leg_length == RatAdd(calculate_distance(body["RHip"], body["RKnee"]),
                                calculate_distance(body["RKnee"], body["RAnkle"]))
       IN  IF RatLT(R(0), torso_length)
           THEN IF RatLT(Rat(3, 2), RatDiv(leg_length, torso_length))
                THEN Some("male") ELSE Some("female")
           ELSE None

\* the reference gender of guess_age: guess_gender() or "female"
reference_gender(self) ==
  IF IsNone(guess_gender(self)) THEN "female" ELSE guess_gender(self)[1]

\* age_to_ratios[age] of guess_age
age_to_ratio(age, gender) ==
  LET f == get_scaling_factors(age, gender)
  IN  RatDiv(f.torso_ratio, f.head_ratio)

\* age_to_ratios of guess_age, for each reference gender
age_to_ratios ==
  [gender \in Genders |-> [age \in 0..20 |-> age_to_ratio(age, gender)]]

\* a scan that keeps the last age of the smallest difference
LastMatch(torso_to_head_ratio, gender) ==
  LET difference == [age \in 0..20 |->
                       RatAbs(RatSub(torso_to_head_ratio, age_to_ratios[gender][age]))]
  IN  Some(CHOOSE age \in 0..20 :
             \A other \in 0..20 :
               IF other > age THEN RatLT(difference[age], difference[other])
               ELSE RatLE(difference[age], difference[other]))

\* the scan for the closest age: min_difference starts at infinity and only a
\* smaller difference replaces best_match, so the first age of the smallest
\* difference is kept
BestMatch(torso_to_head_ratio, gender) ==
  LET difference == [age \in 0..20 |->
                       RatAbs(RatSub(torso_to_head_ratio, age_to_ratios[gender][age]))]
  IN  Some(CHOOSE age \in 0..20 :
             \A other \in 0..20 :
               IF other < age THEN RatLT(difference[age], difference[other])
               ELSE RatLE(difference[age], difference[other]))

\* whether guess_age measures a head and a torso
Measurable(self) ==
  HasAll(self.body, {"Neck", "Nose"}) /\ HasAll(self.body, {"Neck", "RHip", "LHip"})

\* the exception guess_age raises ("" when it returns): get_scaling_factors
\* rejects a declared gender that is not "male" or "female"
GuessAgeError(self) ==
  IF Measurable(self) /\ reference_gender(self) \notin {"male", "female"}
  THEN "ValueError" ELSE ""

\* Pose.guess_age where it returns: Some(age) or None.  A head length of 0
\* makes the ratio inf or nan, no difference is below infinity and
\* best_match stays None.
guess_age(self) ==
  IF ~Measurable(self) THEN None
  ELSE LET body == self.body
           head_length == calculate_distance(body["Neck"], body["Nose"])
           torso_length ==
             RatAdd(RatDiv(calculate_distance(body["Neck"], body["RHip"]), R(2)),
                    RatDiv(calculate_distance(body["Neck"], body["LHip"]), R(2)))
       IN  IF head_length = R(0) THEN None
           ELSE BestMatch(RatDiv(torso_length, head_length), reference_gender(self))

(***************************************************************************)
(* get_edge_factor (src/scaling.py): the ratio key of a connection.        *)
(***************************************************************************)
connection_map ==
  << <<"Neck", "Nose", "head_ratio">>,
     <<"Neck", "RShoulder", "torso_ratio">>,
     <<"Neck", "LShoulder", "torso_ratio">>,
     <<"Neck", "RHip", "torso_ratio">>,
     <<"Neck", "LHip", "torso_ratio">>,
     <<"RShoulder", "RElbow", "arm_ratio">>,
     <<"RElbow", "RWrist", "arm_ratio">>,
     <<"LShoulder", "LElbow", "arm_ratio">>,
     <<"LElbow", "LWrist", "arm_ratio">>,
     <<"RHip", "RKnee", "leg_ratio">>,
     <<"RKnee", "RAnkle", "leg_ratio">>,
     <<"LHip", "LKnee", "leg_ratio">>,
     <<"LKnee", "LAnkle", "leg_ratio">>,
     <<"Nose", "REye", "head_ratio">>,
     <<"Nose", "LEye", "head_ratio">>,
     <<"REye", "REar", "head_ratio">>,
     <<"LEye", "LEar", "head_ratio">> >>

\* a lookup of the pair as given only, without the reversed pair
edge_key_as_given(start, end) ==
  LET hits == {i \in 1..Len(connection_map) :
                 connection_map[i][1] = start /\ connection_map[i][2] = end}
  IN  IF hits = {} THEN "head_ratio"
      ELSE connection_map[CHOOSE i \in hits : TRUE][3]

\* the ratio key of the pair: the table looked up both ways, else head_ratio
edge_key(start, end) ==
  LET hits == {i \in 1..Len(connection_map) :
                 \/ connection_map[i][1] = start /\ connection_map[i][2] = end
                 \/ connection_map[i][1] = end /\ connection_map[i][2] = start}
  IN  IF hits = {} THEN "head_ratio"
      ELSE connection_map[CHOOSE i \in hits : TRUE][3]

get_edge_factor(start, end, scaling_factors) == scaling_factors[edge_key(start, end)]

(***************************************************************************)
(* Pose.scale (src/Pose.py), step by step.                                 *)
(***************************************************************************)
\* self.input_age or self.guess_age(): 0 is falsy, like None
ResolveAge(self) ==
  IF ~IsNone(self.input_age) /\ self.input_age[1] # 0 THEN self.input_age
  ELSE guess_age(self)

\* a resolution that falls back on "female" where guess_gender knows nothing
ResolveGenderOrFemale(self) ==
  IF ~IsNone(self.input_gender) THEN self.input_gender
  ELSE IF IsNone(guess_gender(self)) THEN Some("female")
  ELSE guess_gender(self)

\* self.input_gender or self.guess_gender()
ResolveGender(self) ==
  IF ~IsNone(self.input_gender) THEN self.input_gender ELSE guess_gender(self)

\* whether the first line of scale calls guess_age
ConsultsGuessAge(self) == IsNone(self.input_age) \/ self.input_age[1] = 0

\* whether the second line of scale goes past the declared gender
ConsultsGuessGender(self) == IsNone(self.input_gender)

\* adjusted_scaling_factors: target over input, key by key
AdjustedFactors(input_factors, target_factors) ==
  [key \in DOMAIN input_factors |-> RatDiv(target_factors[key], input_factors[key])]

\* height_ratio
HeightRatio(input_height, target_height) ==
  IF RatLT(R(0), input_height) THEN RatDiv(target_height, input_height) ELSE R(1)

\* norm > 1e-6, decided on the larger component of the vector (the norm is
\* at least that component, and no vector of the model has both components
\* in (0, 1e-6])
NormAboveEps(vector) ==
  LET above(c) == c[1] # 0 /\ c[2] \div 1000000 < Abs(c[1])
  IN  above(vector[1]) \/ above(vector[2])

VecSub(a, b) == <<RatSub(a[1], b[1]), RatSub(a[2], b[2])>>

\* base + vector * factor
Displace(base, vector, factor) ==
  <<RatAdd(base[1], RatMul(vector[1], factor)),
    RatAdd(base[2], RatMul(vector[2], factor))>>

\* a position scaled by the edge factor alone, without the height ratio
ScaledPositionByFactor(start_pos, vector, edge_factor, height_ratio) ==
  Displace(start_pos, vector, edge_factor)

\* the scaled position of a connection: start_pos + direction * scaled_length
\* with direction = vector / norm and scaled_length = norm * edge_factor *
\* height_ratio, that is start_pos + vector * edge_factor * height_ratio
ScaledPosition(start_pos, vector, edge_factor, height_ratio) ==
  Displace(start_pos, vector, RatMul(edge_factor, height_ratio))

\* the state of the traversal:  scaled, keys (scaled_keypoints and its key
\* order), visited, queue; and its history: assigned, the keys in the order
\* scaled_keypoints[key] was written (line 241, then each turn of line 263),
\* and dequeued, the joints in the order queue.pop(0) returned them
RECURSIVE VisitConnections(_, _, _, _, _, _)
VisitConnections(body, current, k, st, factors, height_ratio) ==
  IF k > Len(connections[current]) THEN st
  ELSE
    LET connection == connections[current][k]
    IN  IF connection \notin st.visited /\ connection \in DOMAIN body
        THEN LET vector == VecSub(body[connection], body[current])
             IN  IF NormAboveEps(vector)
                 THEN VisitConnections(body, current, k + 1,
                        [scaled |->
                           (connection :> ScaledPosition(st.scaled[current], vector,
                               get_edge_factor(current, connection, factors),
                               height_ratio)) @@ st.scaled,
                         keys |-> IF connection \in DOMAIN st.scaled THEN st.keys
                                  ELSE Append(st.keys, connection),
                         visited |-> st.visited \cup {connection},
                         queue |-> Append(st.queue, connection),
                         assigned |-> Append(st.assigned, connection),
                         dequeued |-> st.dequeued],
                        factors, height_ratio)
                 ELSE VisitConnections(body, current, k + 1, st, factors, height_ratio)
        ELSE VisitConnections(body, current, k + 1, st, factors, height_ratio)

\* while queue: current = queue.pop(0); ...
RECURSIVE Traverse(_, _, _, _)
Traverse(body, st, factors, height_ratio) ==
  IF st.queue = <<>> THEN st
  ELSE Traverse(body,
                VisitConnections(body, Head(st.queue), 1,
                                 [st EXCEPT !.queue = Tail(st.queue),
                                            !.dequeued = Append(@, Head(st.queue))],
                                 factors, height_ratio),
                factors, height_ratio)

\* a traversal that starts from the anchor scaled by height_ratio, as the
\* other joints are, instead of the anchor's own position
ScaledKeypointsFromScaledAnchor(body, anchor, factors, height_ratio) ==
  Traverse(body,
           [scaled |-> (anchor :> <<RatMul(body[anchor][1], height_ratio),
                                    RatMul(body[anchor][2], height_ratio)>>),
            keys |-> <<anchor>>, visited |-> {anchor}, queue |-> <<anchor>>,
            assigned |-> <<anchor>>, dequeued |-> <<>>],
           factors, height_ratio)

\* a traversal that starts with no joint visited: visited = set()
ScaledKeypointsAnchorUnvisited(body, anchor, factors, height_ratio) ==
  Traverse(body,
           [scaled |-> (anchor :> body[anchor]), keys |-> <<anchor>>,
            visited |-> {}, queue |-> <<anchor>>,
            assigned |-> <<anchor>>, dequeued |-> <<>>],
           factors, height_ratio)

\* scaled_keypoints (before cropping) and its key order, from the anchor
ScaledKeypoints(body, anchor, factors, height_ratio) ==
  Traverse(body,
           [scaled |-> (anchor :> body[anchor]), keys |-> <<anchor>>,
            visited |-> {anchor}, queue |-> <<anchor>>,
            assigned |-> <<anchor>>, dequeued |-> <<>>],
           factors, height_ratio)

(***************************************************************************)
(* scale_face and scale_and_align_points (src/scaling.py).  Landmark lists *)
(* are sequences; the code's index i is position i + 1.                    *)
(***************************************************************************)
\* range(a, b)
Range(a, b) == [k \in 1..(b - a) |-> a + k - 1]

AllNone(points) == \A i \in 1..Len(points) : IsNone(points[i])

\* the valid points among the code's indices idxs
ValidPoints(points, idxs) ==
  LET valid == SelectSeq(idxs, LAMBDA i : ~IsNone(points[i + 1]))
  IN  [k \in 1..Len(valid) |-> points[valid[k] + 1]]

\* a mouth center taken over every landmark of the mouth region, range(48, 71)
\* cut to the list, instead of range(48, 68)
mouth_region_center(face_points) ==
  LET valid_points == ValidPoints(face_points, Range(48, Len(face_points)))
  IN  IF valid_points = <<>> THEN None
      ELSE <<Mean([k \in 1..Len(valid_points) |-> valid_points[k][1]]),
             Mean([k \in 1..Len(valid_points) |-> valid_points[k][2]])>>

\* calculate_mouth_center, for a face of at least 68 points: the mean of the
\* valid points of range(48, 68), or None
calculate_mouth_center(face_points) ==
  LET valid_points == ValidPoints(face_points, Range(48, 68))
  IN  IF valid_points = <<>> THEN None
      ELSE <<Mean([k \in 1..Len(valid_points) |-> valid_points[k][1]]),
             Mean([k \in 1..Len(valid_points) |-> valid_points[k][2]])>>

\* regions whose face contour is the whole of 0..16, the jaw 6..10 included
regions_contour_over_jaw ==
  << <<Range(0, 17), "Nose", "face_contour_factor">>,
     <<Range(6, 11), "Nose", "jaw_factor">>,
     <<Range(17, 22), "REye", "eye_factor">>,
     <<Range(22, 27), "LEye", "eye_factor">>,
     <<Range(27, 36), "Nose", "nose_factor">>,
     <<Range(36, 42), "REye", "eye_factor">>,
     <<Range(42, 48), "LEye", "eye_factor">>,
     <<Range(48, 71), "", "mouth_factor">> >>

\* regions: <<indices, base keypoint, factor key>>; the mouth's base is the
\* computed scaled_mouth_center, written "" here
regions ==
  << <<Range(0, 6) \o Range(11, 17), "Nose", "face_contour_factor">>,
     <<Range(6, 11), "Nose", "jaw_factor">>,
     <<Range(17, 22), "REye", "eye_factor">>,
     <<Range(22, 27), "LEye", "eye_factor">>,
     <<Range(27, 36), "Nose", "nose_factor">>,
     <<Range(36, 42), "REye", "eye_factor">>,
     <<Range(42, 48), "LEye", "eye_factor">>,
     <<Range(48, 71), "", "mouth_factor">> >>

Lookup(dict, key) == IF key \in DOMAIN dict THEN dict[key] ELSE None

\* the loop of scale_region over indices, writing into face_points: no index
\* occurs twice in idxs, so each point is written at most once
ScaleIndices(face_points, idxs, scaled_base, original_base, factor) ==
  [k \in 1..Len(face_points) |->
     IF (\E n \in 1..Len(idxs) : idxs[n] = k - 1) /\ ~IsNone(face_points[k])
     THEN Displace(scaled_base, VecSub(face_points[k], original_base), factor)
     ELSE face_points[k]]

\* scale_region: face_points after the region was scaled in place
scale_region(face_points, region, scaling_factors, height_ratio, scaled_keypoints, original_keypoints, mouth_center, scaled_mouth_center) ==
  LET base_keypoint == region[2]
      scaled_base == IF base_keypoint # "" THEN Lookup(scaled_keypoints, base_keypoint)
                     ELSE scaled_mouth_center
      original_base == IF base_keypoint # "" THEN Lookup(original_keypoints, base_keypoint)
                       ELSE mouth_center
  IN  IF IsNone(scaled_base) \/ IsNone(original_base) THEN face_points
      ELSE ScaleIndices(face_points, region[1], scaled_base, original_base,
                        RatMul(scaling_factors[region[3]], height_ratio))

RECURSIVE ScaleRegions(_, _, _, _, _, _, _, _)
ScaleRegions(face_points, r, scaling_factors, height_ratio, scaled_keypoints, original_keypoints, mouth_center, scaled_mouth_center) ==
  IF r > Len(regions) THEN face_points
  ELSE ScaleRegions(
         scale_region(face_points, regions[r], scaling_factors, height_ratio,
                      scaled_keypoints, original_keypoints, mouth_center,
                      scaled_mouth_center),
         r + 1, scaling_factors, height_ratio, scaled_keypoints,
         original_keypoints, mouth_center, scaled_mouth_center)

\* whether scale_face returns at once: no face points to scale
FaceSkipped(face_points) == face_points = <<>> \/ AllNone(face_points)

\* the exception scale_face raises ("" when it returns): the mouth range is
\* indexed without a length check, and a mouth center reads
\* scaled_keypoints["Nose"] and original_keypoints["Nose"] without one either
FaceError(face_points, scaled_keypoints, original_keypoints) ==
  IF FaceSkipped(face_points) THEN ""
  ELSE IF Len(face_points) < 68 THEN "IndexError"
  ELSE IF IsNone(calculate_mouth_center(face_points)) THEN ""
  ELSE IF "Nose" \notin DOMAIN scaled_keypoints
            \/ "Nose" \notin DOMAIN original_keypoints THEN "KeyError"
  ELSE ""

\* scale_face where it returns: the list face_points it was given, after the
\* call (the regions are written into that list), which is also what it
\* returns
scale_face(face_points, scaling_factors, height_ratio, scaled_keypoints, original_keypoints) ==
  IF FaceSkipped(face_points) THEN face_points
  ELSE
    LET mouth_center == calculate_mouth_center(face_points)
        scaled_mouth_center ==
          IF IsNone(mouth_center) THEN None
          ELSE Displace(scaled_keypoints["Nose"],
                        VecSub(mouth_center, original_keypoints["Nose"]),
                        height_ratio)
    IN  ScaleRegions(face_points, 1, scaling_factors, height_ratio,
                     scaled_keypoints, original_keypoints, mouth_center,
                     scaled_mouth_center)

\* the exception scale_and_align_points raises ("" when it returns):
\* "not scaled_base" on the numpy array that scale stores for the anchor
AlignError(points, base_is_array) ==
  IF points # <<>> /\ base_is_array THEN "ValueError" ELSE ""

\* an alignment that returns the present points only, the None slots dropped
scale_and_align_present_points(points, scaling_factor, scaled_base, original_base) ==
  IF points = <<>> \/ IsNone(scaled_base) \/ IsNone(original_base) THEN points
  ELSE LET present == SelectSeq(points, LAMBDA p : ~IsNone(p))
       IN  [k \in 1..Len(present) |->
              Displace(scaled_base, VecSub(present[k], original_base), scaling_factor)]

\* scale_and_align_points where it returns
scale_and_align_points(points, scaling_factor, scaled_base, original_base) ==
  IF points = <<>> \/ IsNone(scaled_base) \/ IsNone(original_base) THEN points
  ELSE [k \in 1..Len(points) |->
          IF ~IsNone(points[k])
          THEN Displace(scaled_base, VecSub(points[k], original_base), scaling_factor)
          ELSE None]

\* a crop_point that returns the point as it is
Uncropped(self, point) == point

\* crop_point
crop_point(self, point) ==
  <<RatMax(R(0), RatMin(R(self.canvas_width), point[1])),
    RatMax(R(0), RatMin(R(self.canvas_height), point[2]))>>

CropAll(self, points) ==
  [k \in 1..Len(points) |->
     IF ~IsNone(points[k]) THEN crop_point(self, points[k]) ELSE None]

(***************************************************************************)
(* The outcome of one call self.scale(target_gender, target_age):          *)
(*   kind    "pose" when it returns, "error" when it raises                *)
(*   pose    the returned Pose (None when it raises)                       *)
(*   error   the exception's type, at: the step that raised it             *)
(*   face    self.face after the call                                      *)
(***************************************************************************)
Raised(error, at, face) ==
  [kind |-> "error", pose |-> None, error |-> error, at |-> at, face |-> face]

Returned(new_pose, face) ==
  [kind |-> "pose", pose |-> new_pose, error |-> "", at |-> "", face |-> face]

\* the anchor of a pose: Some(joint) or None
Anchor(self) == choose_main_support_with_gravity(dict_to_keypoints_array(self.body))

\* the adjusted factors and the height ratio of a call from the profile
\* <<input_age, input_gender>> to the target (Pose.py 205-232)
AdjustedFor(input_age, input_gender, target_gender, target_age) ==
  AdjustedFactors(get_scaling_factors(input_age, input_gender),
                  get_scaling_factors(target_age, target_gender))

HeightsFor(input_age, input_gender, target_gender, target_age) ==
  HeightRatio(get_height_by_age_gender(input_age, input_gender),
              get_height_by_age_gender(target_age, target_gender))

\* the same for a pose whose profile resolves
Adjusted(self, target_gender, target_age) ==
  AdjustedFor(ResolveAge(self)[1], ResolveGender(self)[1], target_gender, target_age)

Heights(self, target_gender, target_age) ==
  HeightsFor(ResolveAge(self)[1], ResolveGender(self)[1], target_gender, target_age)

\* the first exception of the four scale_and_align_points calls, in the
\* order left hand, right hand, left foot, right foot
AlignErrors(self, anchor) ==
  LET errs == <<AlignError(self.left_hand, anchor = "LWrist"),
                AlignError(self.right_hand, anchor = "RWrist"),
                AlignError(self.left_foot, anchor = "LAnkle"),
                AlignError(self.right_foot, anchor = "RAnkle")>>
      bad == {k \in 1..4 : errs[k] # ""}
  IN  IF bad = {} THEN "" ELSE errs[CHOOSE k \in bad : \A m \in bad : k <= m]

\* the Pose scale returns (Pose.py 308-330): every point cropped, the canvas
\* copied, the target profile stored
NewPose(self, target_gender, target_age, st, new_face, lh, rh, lf, rf) ==
  [body |-> [key \in DOMAIN st.scaled |-> crop_point(self, st.scaled[key])],
   body_keys |-> st.keys,
   face |-> CropAll(self, new_face),
   left_hand |-> CropAll(self, lh),
   right_hand |-> CropAll(self, rh),
   left_foot |-> CropAll(self, lf),
   right_foot |-> CropAll(self, rf),
   canvas_width |-> self.canvas_width,
   canvas_height |-> self.canvas_height,
   input_age |-> Some(target_age),
   input_gender |-> Some(target_gender)]

\* a hand or foot list realigned on its reference joint (Pose.py 269-299)
Aligned(self, scaled_keypoints, points, ref, f) ==
  scale_and_align_points(points, f, Lookup(scaled_keypoints, ref),
                         Lookup(self.body, ref))

\* scale after scale_face has returned new_face (Pose.py 269-330)
ScaleLimbs(self, target_gender, target_age, hand, foot, st, new_face, align_error) ==
  IF align_error # ""
  THEN Raised(align_error, "scale_and_align_points", new_face)
  ELSE Returned(
         NewPose(self, target_gender, target_age, st, new_face,
                 Aligned(self, st.scaled, self.left_hand, "LWrist", hand),
                 Aligned(self, st.scaled, self.right_hand, "RWrist", hand),
                 Aligned(self, st.scaled, self.left_foot, "LAnkle", foot),
                 Aligned(self, st.scaled, self.right_foot, "RAnkle", foot)),
         new_face)

\* scale after the traversal has produced st (Pose.py 267-330)
ScaleFace(self, target_gender, target_age, factors, height_ratio, anchor, st, face_error) ==
  IF face_error # "" THEN Raised(face_error, "scale_face", self.face)
  ELSE ScaleLimbs(self, target_gender, target_age,
                  RatMul(factors["hand_ratio"], height_ratio),
                  RatMul(factors["foot_ratio"], height_ratio),
                  st,
                  scale_face(self.face, factors, height_ratio, st.scaled, self.body),
                  AlignErrors(self, anchor))

\* scale once the anchor is chosen (Pose.py 240-330)
ScaleAround(self, target_gender, target_age, factors, height_ratio, anchor, st) ==
  ScaleFace(self, target_gender, target_age, factors, height_ratio, anchor, st,
            FaceError(self.face, st.scaled, self.body))

\* scale from the choice of the anchor on (Pose.py 235-330)
ScaleAnchored(self, target_gender, target_age, factors, height_ratio, anchor) ==
  IF IsNone(anchor) THEN Raised("KeyError", "anchor", self.face)
  ELSE ScaleAround(self, target_gender, target_age, factors, height_ratio, anchor[1],
                   ScaledKeypoints(self.body, anchor[1], factors, height_ratio))

\* the body of scale from the anchor on, the profiles being resolved
ScaleFrom(self, target_gender, target_age, factors, height_ratio) ==
  ScaleAnchored(self, target_gender, target_age, factors, height_ratio, Anchor(self))

\* scale once input_age and input_gender are resolved (Pose.py 205-330)
ScaleResolved(self, target_gender, target_age, input_age, input_gender) ==
  IF FactorsError(input_age, input_gender) # ""
  THEN Raised(FactorsError(input_age, input_gender), "input_scaling_factors", self.face)
  ELSE IF FactorsError(Some(target_age), Some(target_gender)) # ""
  THEN Raised(FactorsError(Some(target_age), Some(target_gender)),
              "target_scaling_factors", self.face)
  ELSE ScaleFrom(self, target_gender, target_age,
                 AdjustedFor(input_age[1], input_gender[1], target_gender, target_age),
                 HeightsFor(input_age[1], input_gender[1], target_gender, target_age))

\* Pose.scale(self, target_gender, target_age)
scale(self, target_gender, target_age) ==
  IF ConsultsGuessAge(self) /\ GuessAgeError(self) # ""
  THEN Raised(GuessAgeError(self), "guess_age", self.face)
  ELSE ScaleResolved(self, target_gender, target_age,
                     ResolveAge(self), ResolveGender(self))

(***************************************************************************)
(* The poses the model starts from: decoded poses on an integer grid, each *)
(* described by the joints present, a layout, the landmark lists, the      *)
(* canvas and the declared profile.                                        *)
(***************************************************************************)
Pt(x, y) == <<R(x), R(y)>>

\* a standing figure, y growing downwards
StandLayout ==
  [Nose |-> Pt(6, 2), Neck |-> Pt(6, 4),
   RShoulder |-> Pt(4, 4), RElbow |-> Pt(3, 7), RWrist |-> Pt(3, 10),
   LShoulder |-> Pt(8, 4), LElbow |-> Pt(9, 7), LWrist |-> Pt(9, 10),
   RHip |-> Pt(3, 8), RKnee |-> Pt(3, 13), RAnkle |-> Pt(3, 18),
   LHip |-> Pt(9, 8), LKnee |-> Pt(9, 13), LAnkle |-> Pt(9, 18),
   REye |-> Pt(5, 1), LEye |-> Pt(7, 1), REar |-> Pt(4, 2), LEar |-> Pt(8, 2)]

\* the same figure with the nose detected on the neck and the right knee on
\* the right hip
FoldLayout == [StandLayout EXCEPT !.Nose = Pt(6, 4), !.RKnee = Pt(3, 8)]

Layout(name) == IF name = "fold" THEN FoldLayout ELSE StandLayout

\* a list of n slots, None but for the given <<index, point>> pairs
Landmarks(n, given) ==
  [k \in 1..n |->
     IF \E e \in given : e[1] = k - 1
     THEN (CHOOSE e \in given : e[1] = k - 1)[2]
     ELSE None]

EyePoints == {<<19, Pt(5, 0)>>, <<24, Pt(7, 0)>>, <<38, Pt(5, 1)>>, <<45, Pt(7, 1)>>}

MouthPoints == {<<50, Pt(5, 3)>>, <<60, Pt(7, 3)>>, <<68, Pt(5, 1)>>}

NosePoints == {<<0, Pt(4, 2)>>, <<8, Pt(6, 3)>>, <<30, Pt(6, 2)>>}

Face(name) ==
  CASE name = "empty" -> <<>>
    [] name = "none" -> Landmarks(70, {})
    [] name = "eyes" -> Landmarks(70, EyePoints)
    [] name = "mouth" -> Landmarks(70, MouthPoints)
    [] name = "short" -> Landmarks(50, EyePoints)
    [] OTHER -> Landmarks(70, EyePoints \cup MouthPoints \cup NosePoints)

LeftHand(name) == IF name = "none" THEN <<>> ELSE <<Pt(10, 11), None, Pt(9, 12)>>

RightHand(name) == IF name = "none" THEN <<>> ELSE <<Pt(2, 11), None>>

LeftFoot(name) == IF name \in {"all", "left"} THEN <<Pt(10, 19), None, Pt(8, 19)>> ELSE <<>>

RightFoot(name) == IF name = "all" THEN <<Pt(2, 19), None>> ELSE <<>>

CanvasWidth(name) == IF name = "small" THEN 8 ELSE 12

CanvasHeight(name) == IF name = "small" THEN 16 ELSE 20

\* the Pose that Pose.from_json builds: the body holds the present joints
\* in the canonical order
RECURSIVE KeysIn(_, _)
KeysIn(order, present) ==
  IF order = <<>> THEN <<>>
  ELSE IF Head(order) \in present THEN <<Head(order)>> \o KeysIn(Tail(order), present)
  ELSE KeysIn(Tail(order), present)

Decoded(d) ==
  [body |-> [j \in d.present |-> Layout(d.layout)[j]],
   body_keys |-> KeysIn(COCO_KEYPOINTS_ORDER, d.present),
   face |-> Face(d.face),
   left_hand |-> LeftHand(d.limbs), right_hand |-> RightHand(d.limbs),
   left_foot |-> LeftFoot(d.limbs), right_foot |-> RightFoot(d.limbs),
   canvas_width |-> CanvasWidth(d.canvas), canvas_height |-> CanvasHeight(d.canvas),
   input_age |-> d.age, input_gender |-> d.gender]

Base ==
  [present |-> Joints, layout |-> "stand", face |-> "full", limbs |-> "hands",
   canvas |-> "large", age |-> Some(20), gender |-> Some("female")]

Legs == {"RHip", "RKnee", "RAnkle", "LHip", "LKnee", "LAnkle"}

PresentSets ==
  {Joints, Joints \ {"Nose"}, Joints \ {"Neck"}, Joints \ {"RKnee"},
   Joints \ {"LWrist", "RWrist"}, Joints \ Legs, {"Neck", "RHip", "LHip"},
   {"Nose", "REye", "LEye"}, {}}

Descriptors ==
  \* the declared profiles
  {[Base EXCEPT !.age = a, !.gender = g] :
     a \in {None, Some(0), Some(8), Some(20)},
     g \in {None, Some("male"), Some("female")}}
  \* the joints present, on both canvases
  \cup {[Base EXCEPT !.present = ps, !.canvas = c] :
          ps \in PresentSets, c \in {"large", "small"}}
  \* the landmark lists
  \cup {[Base EXCEPT !.face = f, !.present = ps] :
          f \in {"empty", "none", "eyes", "mouth", "short"},
          ps \in {Joints, Joints \ {"Nose"}}}
  \cup {[Base EXCEPT !.limbs = l, !.present = ps] :
          l \in {"none", "all", "left"}, ps \in {Joints, Joints \ Legs}}
  \* undeclared profiles that the estimators cannot always resolve
  \cup {[Base EXCEPT !.age = None, !.gender = None, !.present = ps, !.layout = l] :
          ps \in {Joints, Joints \ {"Nose"}, Joints \ {"RKnee"}},
          l \in {"stand", "fold"}}
  \* joints detected on their neighbour
  \cup {[Base EXCEPT !.layout = "fold", !.face = f] : f \in {"full", "eyes", "none"}}

InputPoses == {Decoded(d) : d \in Descriptors}

\* the arguments of the calls: <<target_gender, target_age>>
Targets ==
  {<<"female", 8>>, <<"female", 20>>, <<"male", 20>>, <<"female", 0>>,
   <<"male", 120>>, <<"unknown", 8>>, <<"female", 121>>, <<"male", -1>>}

\* the number of scale calls of a behaviour
MaxCalls == 2

\* The model's integers have 32 bits: scale is called on poses whose
\* coordinates have denominators up to MaxDenominator, so that the numbers
\* of the call fit.
MaxDenominator == 1000

\* every point of a pose
Coordinates(self) ==
  {self.body[j] : j \in DOMAIN self.body}
    \cup UNION {{points[k] : k \in 1..Len(points)} \ {None} :
                  points \in {self.face, self.left_hand, self.right_hand,
                              self.left_foot, self.right_foot}}

Fits(self) ==
  {point \in Coordinates(self) :
     MaxDenominator < point[1][2] \/ MaxDenominator < point[2][2]} = {}

(***************************************************************************)
(* The state: the Pose a caller holds, where it came from, and the calls   *)
(* of scale made on it.                                                    *)
(*   pose    the Pose object                                               *)
(*   source  None for a decoded pose, else the <<target_gender,            *)
(*           target_age>> of the scale call that returned it               *)
(*   log     the calls made on pose, oldest first: args, the object before *)
(*           (pre) and after (post) the call, and the outcome (out)        *)
(*   calls   the number of calls so far                                    *)
(***************************************************************************)
\*   openpose  the OpenPose container of the caller (people, canvas_width,
\*             canvas_height), None where the caller holds a single Pose
VARIABLES pose, source, log, calls, openpose

vars == <<pose, source, log, calls, openpose>>

Init ==
  /\ pose \in InputPoses
  /\ source = None
  /\ log = <<>>
  /\ calls = 0
  /\ openpose = None

\* the record of one call: its arguments, the object before and after it,
\* and its outcome r
Call(self, after, target_gender, target_age, r) ==
  [args |-> <<target_gender, target_age>>, pre |-> self, post |-> after,
   out |-> [kind |-> r.kind, pose |-> r.pose, error |-> r.error, at |-> r.at]]

\* the object after a call whose outcome is r: scale_face writes into
\* self.face, the other fields of self are only read
Written(self, r) == [self EXCEPT !.face = r.face]

Calling(target_gender, target_age, r) ==
  /\ pose' = Written(pose, r)
  /\ log' = Append(log, Call(pose, Written(pose, r), target_gender, target_age, r))

\* a call pose.scale(target_gender, target_age)
Scale(target_gender, target_age) ==
  /\ calls < MaxCalls
  /\ Fits(pose)
  /\ Calling(target_gender, target_age, scale(pose, target_gender, target_age))
  /\ calls' = calls + 1
  /\ UNCHANGED <<source, openpose>>

\* the caller goes on with the Pose the last call returned, as
\* OpenPose.scale_pose does: people[index] = pose.scale(...)
Adopt ==
  /\ calls < MaxCalls
  /\ log # <<>>
  /\ log[Len(log)].out.kind = "pose"
  /\ pose' = log[Len(log)].out.pose
  /\ source' = log[Len(log)].args
  /\ log' = <<>>
  /\ UNCHANGED <<calls, openpose>>

Next ==
  \/ \E t \in Targets : Scale(t[1], t[2])
  \/ Adopt

Spec == Init /\ [][Next]_vars

(***************************************************************************)
(* The properties.  They read the log: one entry per call made on the      *)
(* Pose the caller holds.                                                  *)
(***************************************************************************)
Entries == {log[i] : i \in 1..Len(log)}

Returns(e) == e.out.kind = "pose"

ValidTarget(args) == args[1] \in Genders /\ 0 <= args[2] /\ args[2] <= 120

OnCanvas(self, point) ==
  /\ RatLE(R(0), point[1]) /\ RatLE(point[1], R(self.canvas_width))
  /\ RatLE(R(0), point[2]) /\ RatLE(point[2], R(self.canvas_height))

\* the target differs from the resolved input profile in some ratio
Rescales(e) ==
  \E key \in DOMAIN Adjusted(e.pre, e.args[1], e.args[2]) :
    Adjusted(e.pre, e.args[1], e.args[2])[key] # R(1)

\* C1 as stated: wherever scale returns, the output skeleton has the anchor
\* joint with exactly the coordinates it had in the input.
C1_AnchorUnchanged ==
  \A e \in Entries :
    Returns(e) =>
      LET a == Anchor(e.pre)[1]
      IN  a \in DOMAIN e.out.pose.body /\ e.out.pose.body[a] = e.pre.body[a]

\* C1, amended: wherever scale returns, the output skeleton has the anchor
\* joint, each of its coordinates being the input coordinate clamped to the
\* canvas; it has exactly the input coordinates when the anchor lies on the
\* canvas.
C1_AnchorClamped ==
  \A e \in Entries :
    Returns(e) =>
      LET a == Anchor(e.pre)[1]
          p == e.pre.body[a]
          q == e.out.pose.body[a]
      IN  /\ a \in DOMAIN e.out.pose.body
          /\ q[1] = RatMax(R(0), RatMin(R(e.pre.canvas_width), p[1]))
          /\ q[2] = RatMax(R(0), RatMin(R(e.pre.canvas_height), p[2]))
          /\ (OnCanvas(e.pre, p) => q = p)

\* a call that rescales a skeleton whose anchor lies on the canvas: the
\* anchor stays and another joint moves
C1_Witness ==
  \E e \in Entries :
    /\ Returns(e) /\ Rescales(e)
    /\ OnCanvas(e.pre, e.pre.body[Anchor(e.pre)[1]])
    /\ e.out.pose.body[Anchor(e.pre)[1]] = e.pre.body[Anchor(e.pre)[1]]
    /\ \E j \in DOMAIN e.out.pose.body : e.out.pose.body[j] # e.pre.body[j]

\* C2: every coordinate of a returned Pose (skeleton, face, hands, feet) lies
\* in [0, canvas_width] x [0, canvas_height], the clusters left unscaled
\* included.
C2_ClampTotality ==
  \A e \in Entries :
    Returns(e) =>
      \A point \in Coordinates(e.out.pose) : OnCanvas(e.pre, point)

\* a returned Pose whose left hand was left unscaled (no LWrist) and had a
\* point off the canvas, and whose skeleton had a joint off the canvas
C2_Witness ==
  \E e \in Entries :
    /\ Returns(e)
    /\ "LWrist" \notin DOMAIN e.pre.body
    /\ \E k \in 1..Len(e.pre.left_hand) :
         /\ ~IsNone(e.pre.left_hand[k])
         /\ ~OnCanvas(e.pre, e.pre.left_hand[k])
         /\ e.out.pose.left_hand[k] # e.pre.left_hand[k]
    /\ \E j \in DOMAIN e.out.pose.body : ~OnCanvas(e.pre, e.pre.body[j])

\* the joints of body that a path of present joints joins to the joints of S
RECURSIVE Connected(_, _)
Connected(body, S) ==
  LET T == S \cup {j \in DOMAIN body :
                     \E i \in S : \E k \in 1..Len(connections[i]) :
                       connections[i][k] = j}
  IN  IF T = S THEN S ELSE Connected(body, T)

\* the steps of scale that come before the traversal
ProfileSteps == {"guess_age", "input_scaling_factors", "target_scaling_factors"}

\* the input profile of self resolves to an age and a gender of the tables
InputResolves(self) ==
  IF ConsultsGuessAge(self) /\ GuessAgeError(self) # "" THEN FALSE
  ELSE FactorsError(ResolveAge(self), ResolveGender(self)) = ""

\* C3 as stated, for skeletons that lie on the canvas: when the target is the
\* declared profile of the pose, every adjusted ratio and the height ratio
\* are 1 and every joint of the output skeleton has its input coordinates.
C3_SelfScaleIdentity ==
  \A e \in Entries :
    /\ Returns(e)
    /\ e.pre.input_age = Some(e.args[2]) /\ e.pre.input_gender = Some(e.args[1])
    /\ \A j \in DOMAIN e.pre.body : OnCanvas(e.pre, e.pre.body[j])
    => /\ ~Rescales(e)
       /\ Heights(e.pre, e.args[1], e.args[2]) = R(1)
       /\ \A j \in DOMAIN e.out.pose.body : e.out.pose.body[j] = e.pre.body[j]

\* C4 as stated: past the profile and anchor steps, and leaving aside the
\* errors of a short face list and of a foot list on the anchor, scale
\* returns, and the output skeleton has no joint that is absent from the
\* input or that no path of present joints joins to the anchor.
C4_UnreachableOmittedNoError ==
  \A e \in Entries :
    e.out.at \notin ProfileSteps \cup {"anchor"}
      /\ e.out.error \notin {"IndexError", "ValueError"}
    => /\ Returns(e)
       /\ DOMAIN e.out.pose.body
            \subseteq Connected(e.pre.body, {Anchor(e.pre)[1]})

\* C5 as stated: after a call, returned or raised, the Pose it was called
\* on equals the Pose before the call in every field.
C5_InputNotMutated == \A e \in Entries : e.post = e.pre

\* C6 as stated: two successive calls on the same Pose with the same target
\* have the same outcome, equal in every field.
C6_SameOutcomeTwice ==
  \A i \in 1..Len(log) :
    i < Len(log) /\ log[i].args = log[i + 1].args => log[i].out = log[i + 1].out

\* C7 as stated: a call with an invalid target ends in the invalid-argument
\* error (ValueError), returns no Pose and leaves the pose as it was; a valid
\* target is not rejected.
C7_InvalidTargetValueError ==
  \A e \in Entries :
    IF ValidTarget(e.args) THEN e.out.at # "target_scaling_factors"
    ELSE /\ e.out.kind = "error" /\ e.out.error = "ValueError"
         /\ IsNone(e.out.pose) /\ e.post = e.pre

\* C7, amended: a call with an invalid target returns no Pose and leaves the
\* pose as it was; its error is the ValueError of the target lookup when the
\* input profile resolves, and otherwise the error of the input profile,
\* which is raised first (a TypeError for an unresolved age).  A valid
\* target is never rejected by the target lookup.
C7_InvalidTargetRejected ==
  \A e \in Entries :
    IF ValidTarget(e.args) THEN e.out.at # "target_scaling_factors"
    ELSE /\ e.out.kind = "error" /\ IsNone(e.out.pose) /\ e.post = e.pre
         /\ IF InputResolves(e.pre)
            THEN e.out.error = "ValueError" /\ e.out.at = "target_scaling_factors"
            ELSE /\ e.out.at \in {"guess_age", "input_scaling_factors"}
                 /\ e.out.error =
                      (IF IsNone(ResolveGender(e.pre)) THEN "ValueError"
                       ELSE "TypeError")

\* one Pose called with an invalid target, rejected by the target lookup, and
\* with the ages 0 or 120, accepted
C7_Witness ==
  /\ \E e \in Entries :
       /\ ~ValidTarget(e.args)
       /\ e.out.error = "ValueError" /\ e.out.at = "target_scaling_factors"
  /\ \E e \in Entries : e.args[2] \in {0, 120} /\ Returns(e)

\* the input profile of self has an undeclared part that its estimator does
\* not know
Unresolved(self) ==
  \/ IsNone(self.input_age) /\ IsNone(guess_age(self))
  \/ IsNone(self.input_gender) /\ IsNone(guess_gender(self))

\* C8: a call on a pose whose undeclared age (or gender) guess_age (or
\* guess_gender) does not know raises at the lookup of the input profile and
\* returns no Pose: no default stands in for the missing value.
C8_UnresolvedProfileFails ==
  \A e \in Entries :
    Unresolved(e.pre) =>
      /\ e.out.kind = "error" /\ IsNone(e.out.pose)
      /\ e.out.at = "input_scaling_factors"
      /\ e.out.error = (IF IsNone(ResolveGender(e.pre)) THEN "ValueError"
                        ELSE "TypeError")

\* a pose of unknown age and a pose of unknown gender, each called with a valid
\* target
C8_Witness ==
  \E e \in Entries :
    /\ ValidTarget(e.args) /\ Unresolved(e.pre)
    /\ e.out.kind = "error"
    /\ \/ e.out.error = "TypeError" /\ ~IsNone(ResolveGender(e.pre))
       \/ e.out.error = "ValueError" /\ ~IsNone(ResolveAge(e.pre))

\* C9 as stated, for the Nose: past the profile and anchor steps, and leaving
\* aside the errors of a short face list and of a foot list on the anchor,
\* scale returns when the Nose is absent from the input, and the landmarks of
\* the regions based on it keep their coordinates, clamped to the canvas.
C9_MissingBaseNonFatal ==
  \A e \in Entries :
    /\ "Nose" \notin DOMAIN e.pre.body
    /\ e.out.at \notin ProfileSteps \cup {"anchor"}
    /\ e.out.error \notin {"IndexError", "ValueError"}
    => /\ Returns(e)
       /\ \A k \in 1..Len(e.pre.face) :
            k - 1 \in {27, 28, 29, 30, 48, 50, 60} /\ ~IsNone(e.pre.face[k])
            => e.out.pose.face[k] = crop_point(e.pre, e.pre.face[k])

\* C10 as stated: a returned Pose carries the target as its declared profile
\* and the canvas of the input, and a Pose adopted from scale(g, a) resolves
\* its input profile to (a, g) without guess_age or guess_gender.
C10_TargetProfileIsGroundTruth ==
  /\ \A e \in Entries :
       Returns(e) =>
         /\ e.out.pose.input_age = Some(e.args[2])
         /\ e.out.pose.input_gender = Some(e.args[1])
         /\ e.out.pose.canvas_width = e.pre.canvas_width
         /\ e.out.pose.canvas_height = e.pre.canvas_height
  /\ ~IsNone(source) =>
       /\ ~ConsultsGuessAge(pose) /\ ~ConsultsGuessGender(pose)
       /\ ResolveAge(pose) = Some(source[2])
       /\ ResolveGender(pose) = Some(source[1])

(***************************************************************************)
(* The estimators and the tables on their own: choose_main_support_with_   *)
(* gravity, estimate_COM, guess_gender, guess_age on a skeleton, and       *)
(* get_scaling_factors, get_height_by_age_gender on a profile.             *)
(*   pose    the Pose the estimators are applied to                        *)
(*   source  None, or the <<gender, age>> the tables are looked up with    *)
(*   log     the applications made: fn, the function's name, and result    *)
(*   calls   the number of applications so far                             *)
(***************************************************************************)
\* the standing figure with its ankles and knees moved: the heights of the
\* right and left ankle, the x of the left ankle, the heights of the knees
Figure(ra, la, lx, rk, lk) ==
  [StandLayout EXCEPT !.RAnkle = Pt(3, ra), !.LAnkle = Pt(lx, la),
                      !.RKnee = Pt(3, rk), !.LKnee = Pt(9, lk)]

\* standing, one foot lifted, kneeling (the knees below the ankles), a lunge
Figures ==
  {Figure(ra, la, lx, k[1], k[2]) :
     ra \in {18, 12}, la \in {18, 13, 12}, lx \in {9, 7},
     k \in {<<13, 13>>, <<19, 19>>, <<13, 19>>}}

\* the joints choose_main_support_with_gravity chooses from
SupportJoints == {"RAnkle", "LAnkle", "RKnee", "LKnee", "RHip", "LHip", "Neck"}

\* a decoded skeleton without landmark lists and without a declared profile
Skeleton(layout, present) ==
  [body |-> [j \in present |-> layout[j]],
   body_keys |-> KeysIn(COCO_KEYPOINTS_ORDER, present),
   face |-> <<>>, left_hand |-> <<>>, right_hand |-> <<>>,
   left_foot |-> <<>>, right_foot |-> <<>>,
   canvas_width |-> CanvasWidth("large"), canvas_height |-> CanvasHeight("large"),
   input_age |-> None, input_gender |-> None]

\* the figures with every choice of support joints, with and without the
\* shoulders
SupportPoses ==
  {Skeleton(f, ps \cup up) :
     f \in Figures, ps \in SUBSET SupportJoints,
     up \in {{}, {"RShoulder", "LShoulder"}, {"Nose", "REye"}}}

\* figures for the proportions: the leg 2, 4/5, 3/2 times the torso, a torso
\* of length 0, a head of length 0, and heads of several lengths
ProportionLayouts ==
  {StandLayout,
   [StandLayout EXCEPT !.RKnee = Pt(3, 10), !.RAnkle = Pt(3, 12)],
   [StandLayout EXCEPT !.RKnee = <<R(3), Rat(23, 2)>>, !.RAnkle = <<R(3), Rat(31, 2)>>],
   [StandLayout EXCEPT !.Neck = Pt(3, 8)],
   [StandLayout EXCEPT !.Nose = Pt(6, 4)],
   [StandLayout EXCEPT !.Nose = Pt(6, 3)],
   [StandLayout EXCEPT !.Nose = Pt(6, 1)],
   [StandLayout EXCEPT !.Nose = Pt(6, 0), !.RHip = Pt(6, 8), !.LHip = Pt(6, 8)],
   [StandLayout EXCEPT !.Nose = Pt(2, 1)],
   [StandLayout EXCEPT !.Nose = Pt(8, 1)],
   [StandLayout EXCEPT !.RHip = Pt(3, 6), !.LHip = Pt(9, 6)],
   [StandLayout EXCEPT !.RHip = Pt(3, 7), !.LHip = Pt(9, 7)],
   [StandLayout EXCEPT !.RHip = <<R(6), Rat(17, 2)>>, !.LHip = <<R(6), Rat(17, 2)>>]}

ProportionPoses ==
  {[Skeleton(f, ps) EXCEPT !.input_gender = g] :
     f \in ProportionLayouts,
     ps \in {Joints, Joints \ {"Nose"}, Joints \ {"Neck"}, Joints \ {"RHip"},
             Joints \ {"LHip"}, Joints \ {"RKnee"}, Joints \ {"RAnkle"}},
     g \in {None, Some("male"), Some("female")}}

EstimatorPoses == SupportPoses \cup ProportionPoses

\* the profiles the tables are looked up with: <<gender, age>>
MaxAge == 121

Profiles == {<<g, a>> : g \in Genders \cup {"unknown"}, a \in -1..MaxAge}

\* the targets whose adjusted factors, from (20, female), get_edge_factor is
\* given: <<gender, age>>
EdgeTargets == {<<"female", 0>>, <<"male", 8>>, <<"female", 14>>}

\* the pairs of joints get_edge_factor is looked up with, each with a target
EdgeLookups == {<<a, b, t>> : a \in Joints, b \in Joints, t \in EdgeTargets}

\* the adjusted factors of a lookup
EdgeFactors(lookup) == AdjustedFor(20, "female", lookup[3][1], lookup[3][2])

EstimatorInit ==
  /\ \/ pose \in EstimatorPoses /\ source = None
     \/ pose = Skeleton(StandLayout, {}) /\ source \in Profiles
     \/ pose = Skeleton(StandLayout, {}) /\ source \in EdgeLookups
  /\ log = <<>>
  /\ calls = 0
  /\ openpose = None

\* one application of the function named fn, with its result
Apply(fn, result) ==
  /\ calls = 0
  /\ log' = <<[fn |-> fn, result |-> result]>>
  /\ calls' = calls + 1
  /\ UNCHANGED <<pose, source, openpose>>

ChooseSupport ==
  /\ source = None
  /\ Apply("choose_main_support_with_gravity",
           choose_main_support_with_gravity(dict_to_keypoints_array(pose.body)))

EstimateCOM ==
  /\ source = None
  /\ Apply("estimate_COM",
           estimate_COM(dict_to_keypoints_array(pose.body), confidence_threshold))

GuessGender ==
  /\ source = None
  /\ Apply("guess_gender", guess_gender(pose))

GuessAge ==
  /\ source = None
  /\ Apply("guess_age", guess_age(pose))

\* get_scaling_factors(age, gender): the factors, or the exception's type
ScalingFactors ==
  /\ Len(source) = 2
  /\ Apply("get_scaling_factors",
           IF FactorsError(Some(source[2]), Some(source[1])) # ""
           THEN [error |-> FactorsError(Some(source[2]), Some(source[1]))]
           ELSE get_scaling_factors(source[2], source[1]))

HeightByAgeGender ==
  /\ Len(source) = 2
  /\ Apply("get_height_by_age_gender", get_height_by_age_gender(source[2], source[1]))

\* get_edge_factor(start, end, scaling_factors)
EdgeFactor ==
  /\ Len(source) = 3
  /\ Apply("get_edge_factor", get_edge_factor(source[1], source[2], EdgeFactors(source)))

EstimatorNext ==
  \/ ChooseSupport
  \/ EstimateCOM
  \/ GuessGender
  \/ GuessAge
  \/ ScalingFactors
  \/ HeightByAgeGender
  \/ EdgeFactor

EstimatorSpec == EstimatorInit /\ [][EstimatorNext]_vars

\* the results of the applications of fn
Results(fn) == {e.result : e \in {a \in Entries : a.fn = fn}}

\* the groups of choose_main_support_with_gravity, by name, in priority
SupportGroups ==
  << {"RAnkle", "LAnkle"}, {"RKnee", "LKnee"}, {"RHip", "LHip"}, {"Neck"} >>

\* the joints of group g that are present in self
PresentIn(self, g) == SupportGroups[g] \cap DOMAIN self.body

\* g is the first group with a joint present in self
FirstGroup(self, g) ==
  PresentIn(self, g) # {} /\ \A h \in 1..(g - 1) : PresentIn(self, h) = {}

OffCOM(self, j) ==
  RatAbs(RatSub(self.body[j][1],
                estimate_COM(dict_to_keypoints_array(self.body),
                             confidence_threshold)[1]))

\* the y distance of the joints a and b of self
Apart(self, a, b) == RatAbs(RatSub(self.body[a][2], self.body[b][2]))

\* C12: when both joints of the selected group are present, the lower one
\* (larger y) is returned if they are more than vertical_tolerance apart in
\* y, whatever the center of mass; otherwise the returned joint is the one
\* whose x is nearer to COM.x.
C12_ChoiceInsideGroup ==
  \A r \in Results("choose_main_support_with_gravity") :
    \A g \in 1..Len(SupportGroups) :
      \A a, b \in SupportGroups[g] :
        FirstGroup(pose, g) /\ a # b /\ {a, b} \subseteq DOMAIN pose.body
          /\ r = Some(a)
        => IF RatLT(vertical_tolerance, Apart(pose, a, b))
           THEN RatLT(pose.body[b][2], pose.body[a][2])
           ELSE RatLE(OffCOM(pose, a), OffCOM(pose, b))

\* two ankles within the tolerance, and the higher one is returned because it
\* is nearer to the center of mass
C12_Witness ==
  \E a, b \in SupportGroups[1] :
    /\ {a, b} \subseteq DOMAIN pose.body
    /\ Some(a) \in Results("choose_main_support_with_gravity")
    /\ RatLT(pose.body[a][2], pose.body[b][2])
    /\ RatLE(Apart(pose, a, b), vertical_tolerance)
    /\ RatLT(OffCOM(pose, a), OffCOM(pose, b))

\* C13: choose_main_support_with_gravity returns None exactly when none of
\* the seven support joints is present, and otherwise the name of one of
\* them.
C13_AbsentIffNoSupportJoint ==
  \A r \in Results("choose_main_support_with_gravity") :
    IF SupportJoints \cap DOMAIN pose.body = {} THEN r = None
    ELSE r # None /\ r[1] \in SupportJoints

\* a pose with joints, none of them a support joint: None is returned
C13_Witness ==
  /\ DOMAIN pose.body # {}
  /\ SupportJoints \cap DOMAIN pose.body = {}
  /\ None \in Results("choose_main_support_with_gravity")

\* a kneeling pose: ankles and knees present, both knees below both ankles
Kneeling(self) ==
  /\ {"RAnkle", "LAnkle", "RKnee", "LKnee"} \subseteq DOMAIN self.body
  /\ \A k \in {"RKnee", "LKnee"} : \A a \in {"RAnkle", "LAnkle"} :
       RatLT(self.body[a][2], self.body[k][2])

\* C14 as stated: for a kneeling pose, the ankles visible but the knees the
\* lowest joints, a knee is selected as the main support point.
C14_KneelingSelectsKnee ==
  \A r \in Results("choose_main_support_with_gravity") :
    Kneeling(pose) => r \in {Some("RKnee"), Some("LKnee")}

\* the lengths guess_gender measures on a body with the four joints
TorsoOf(body) == calculate_distance(body["Neck"], body["RHip"])

LegOf(body) ==
  RatAdd(calculate_distance(body["RHip"], body["RKnee"]),
         calculate_distance(body["RKnee"], body["RAnkle"]))

\* C15: guess_gender returns the declared gender when one is set; otherwise,
\* with Neck, RHip, RKnee, RAnkle present and a torso longer than 0, "male"
\* exactly when leg_length / torso_length > 1.5 and "female" otherwise;
\* and None when one of the four joints is missing or the torso length is 0.
C15_GuessGender ==
  \A r \in Results("guess_gender") :
    IF pose.input_gender # None THEN r = pose.input_gender
    ELSE IF ~({"Neck", "RHip", "RKnee", "RAnkle"} \subseteq DOMAIN pose.body)
    THEN r = None
    ELSE IF TorsoOf(pose.body) = R(0) THEN r = None
    ELSE IF RatLT(RatMul(Rat(3, 2), TorsoOf(pose.body)), LegOf(pose.body))
    THEN r = Some("male")
    ELSE r = Some("female")

\* an undeclared pose whose leg is exactly 1.5 times its torso: "female"
C15_Witness ==
  /\ pose.input_gender = None
  /\ {"Neck", "RHip", "RKnee", "RAnkle"} \subseteq DOMAIN pose.body
  /\ RatLT(R(0), TorsoOf(pose.body))
  /\ LegOf(pose.body) = RatMul(Rat(3, 2), TorsoOf(pose.body))
  /\ Results("guess_gender") = {Some("female")}

\* the lengths guess_age measures on a body with the four joints
HeadLength(body) == calculate_distance(body["Neck"], body["Nose"])

TorsoLength(body) ==
  RatDiv(RatAdd(calculate_distance(body["Neck"], body["RHip"]),
                calculate_distance(body["Neck"], body["LHip"])), R(2))

\* |torso_length / head_length - torso_ratio(a) / head_ratio(a)|
AgeDifference(body, a) ==
  RatAbs(RatSub(RatDiv(TorsoLength(body), HeadLength(body)),
                RatDiv(get_scaling_factors(a, "female").torso_ratio,
                       get_scaling_factors(a, "female").head_ratio)))

\* a is the smallest age of 0..20 with the smallest difference
ClosestAge(body, a) ==
  /\ a \in 0..20
  /\ \A b \in 0..20 : RatLE(AgeDifference(body, a), AgeDifference(body, b))
  /\ \A b \in 0..(a - 1) : RatLT(AgeDifference(body, a), AgeDifference(body, b))

\* C16 as stated: guess_age returns None when Nose, Neck, RHip or LHip is
\* missing, and otherwise the smallest age in 0..20 of the smallest
\* difference.
C16_GuessAgeClosest ==
  \A r \in Results("guess_age") :
    IF ~({"Nose", "Neck", "RHip", "LHip"} \subseteq DOMAIN pose.body) THEN r = None
    ELSE r # None /\ (HeadLength(pose.body) # R(0) => ClosestAge(pose.body, r[1]))

\* C16, amended: guess_age returns None when Nose, Neck, RHip or LHip is
\* missing or when the head length (Neck to Nose) is 0, and otherwise the
\* smallest age in 0..20 of the smallest difference.
C16_GuessAgeClosestOrUnknown ==
  \A r \in Results("guess_age") :
    IF ~({"Nose", "Neck", "RHip", "LHip"} \subseteq DOMAIN pose.body) THEN r = None
    ELSE IF HeadLength(pose.body) = R(0) THEN r = None
    ELSE r # None /\ ClosestAge(pose.body, r[1])

\* an age is returned that a larger age equals in difference
C16_Witness ==
  \E r \in Results("guess_age") :
    /\ r # None
    /\ ClosestAge(pose.body, r[1])
    /\ \E b \in (r[1] + 1)..20 :
         AgeDifference(pose.body, b) = AgeDifference(pose.body, r[1])

\* the ratio of the segment between two adjacent joints: head, torso, arm or
\* leg
SegmentKey(a, b) ==
  IF {a, b} \subseteq {"Nose", "Neck", "REye", "LEye", "REar", "LEar"} THEN "head_ratio"
  ELSE IF "Neck" \in {a, b} THEN "torso_ratio"
  ELSE IF {a, b} \subseteq {"RShoulder", "RElbow", "RWrist", "LShoulder", "LElbow", "LWrist"}
  THEN "arm_ratio"
  ELSE "leg_ratio"

\* the calls that got as far as the traversal
Traversed(e) == e.out.at \notin ProfileSteps \cup {"anchor"}

\* scaled_keypoints of the call e, before clamping
Unclamped(e) ==
  ScaledKeypoints(e.pre.body, Anchor(e.pre)[1],
                  Adjusted(e.pre, e.args[1], e.args[2]),
                  Heights(e.pre, e.args[1], e.args[2])).scaled

\* moved == original * ratio: a displacement multiplied by a ratio
Multiplied(moved, original, ratio) ==
  /\ moved[1] = RatMul(original[1], ratio)
  /\ moved[2] = RatMul(original[2], ratio)

\* the edge current -> neighbor of the call e, with the unclamped skeleton
\* st, is scaled by its segment's adjusted ratio and the height ratio
EdgeScaled(e, st, adjusted, height_ratio, current, neighbor) ==
  Multiplied(VecSub(st[neighbor], st[current]),
             VecSub(e.pre.body[neighbor], e.pre.body[current]),
             RatMul(adjusted[SegmentKey(current, neighbor)], height_ratio))

\* every edge of the unclamped skeleton st of the call e is scaled, and the
\* returned skeleton is st clamped
ScaledAlongEdges(e, st, adjusted, height_ratio) ==
  /\ \A current \in DOMAIN st :
       \A k \in 1..Len(connections[current]) :
         connections[current][k] \in DOMAIN st
           => EdgeScaled(e, st, adjusted, height_ratio, current, connections[current][k])
  /\ Returns(e) =>
       \A j \in DOMAIN e.out.pose.body :
         e.out.pose.body[j] = crop_point(e.pre, st[j])

\* C17: before clamping, for every two adjacent joints of the scaled
\* skeleton, scaled(neighbor) - scaled(current) is original(neighbor) -
\* original(current) multiplied by the adjusted ratio of the segment (head,
\* torso, arm or leg) and by the height ratio; the returned skeleton is the
\* scaled one clamped to the canvas.
C17_EdgeScaling ==
  \A e \in Entries :
    Traversed(e) =>
      ScaledAlongEdges(e, Unclamped(e), Adjusted(e.pre, e.args[1], e.args[2]),
                       Heights(e.pre, e.args[1], e.args[2]))

\* the Neck-Nose displacement of the unclamped skeleton st is the original
\* one multiplied by ratio
HeadScaled(e, st, ratio) ==
  /\ {"Neck", "Nose"} \subseteq DOMAIN st
  /\ Multiplied(VecSub(st["Nose"], st["Neck"]),
                VecSub(e.pre.body["Nose"], e.pre.body["Neck"]), ratio)

\* a pose declared (20, female) scaled to (8, female): the Neck-Nose
\* displacement is multiplied by 0.21 / 0.15 and by 123 / 165
C17_Witness ==
  \E e \in Entries :
    /\ Returns(e)
    /\ e.pre.input_age = Some(20) /\ e.pre.input_gender = Some("female")
    /\ e.args = <<"female", 8>>
    /\ {"Neck", "Nose"} \subseteq DOMAIN e.pre.body
    /\ e.pre.body["Nose"] # e.pre.body["Neck"]
    /\ HeadScaled(e, Unclamped(e), RatMul(Rat(21, 15), Rat(123, 165)))

\* the adult proportions of a gender: the base factors with the gender's
\* adjustments
AdultFactors(gender) ==
  IF gender = "female"
  THEN [base_factors EXCEPT !.jaw_factor = Rat(95, 100),
                            !.mouth_factor = Rat(110, 100),
                            !.face_contour_factor = Rat(105, 100)]
  ELSE base_factors

\* the adult height of a gender, in cm
AdultHeight(gender) == IF gender = "male" THEN R(176) ELSE R(165)

\* C18: for every age from 20 to 120 and each gender, get_scaling_factors
\* rejects nothing and returns the adult proportions, those of age 20, and
\* get_height_by_age_gender returns the adult height, that of age 20.
C18_AdultProfileAbove20 ==
  Len(source) = 2 /\ source[1] \in Genders /\ 20 <= source[2] /\ source[2] <= 120
    => /\ Results("get_scaling_factors") \subseteq {AdultFactors(source[1])}
       /\ Results("get_height_by_age_gender") \subseteq {AdultHeight(source[1])}

\* the factors of a woman of 120 have been looked up
C18_Witness ==
  /\ source = <<"female", 120>>
  /\ Results("get_scaling_factors") = {AdultFactors("female")}

\* C19 as stated: for a pose whose input age and gender resolve and a valid
\* target, scale returns a Pose; the only errors of scale are those of an
\* invalid target and of an unresolved input profile.
C19_NoOtherFailure ==
  \A e \in Entries :
    /\ InputResolves(e.pre) /\ ValidTarget(e.args) => Returns(e)
    /\ e.out.kind = "error" => e.out.at \in ProfileSteps

\* whether the body has a torso point
HasTorso(body) ==
  {"Neck", "RShoulder", "LShoulder"} \cap DOMAIN body # {}
    \/ {"RHip", "LHip"} \subseteq DOMAIN body

\* the torso points in the order estimate_COM collects them
TorsoSeq(body) ==
  [k \in 1..Len(KeysIn(<<"Neck", "RShoulder", "LShoulder">>, DOMAIN body)) |->
     body[KeysIn(<<"Neck", "RShoulder", "LShoulder">>, DOMAIN body)[k]]]
    \o (IF {"RHip", "LHip"} \subseteq DOMAIN body
        THEN <<<<RatDiv(RatAdd(body["RHip"][1], body["LHip"][1]), R(2)),
                 RatDiv(RatAdd(body["RHip"][2], body["LHip"][2]), R(2))>>>>
        ELSE <<>>)

\* coordinate c of the torso center: the mean of the torso points
TorsoCenter(body, c) ==
  Mean([k \in 1..Len(TorsoSeq(body)) |-> TorsoSeq(body)[k][c]])

\* coordinate c of a leg center: the midpoint of hip and ankle, else the
\* hip, else the torso center
LegCenter(body, hip, ankle, c) ==
  IF {hip, ankle} \subseteq DOMAIN body
  THEN RatDiv(RatAdd(body[hip][c], body[ankle][c]), R(2))
  ELSE IF hip \in DOMAIN body THEN body[hip][c]
  ELSE TorsoCenter(body, c)

\* torso * 0.5 + right leg * 0.2 + left leg * 0.2, for coordinate c
WeightedSum(body, c) ==
  RatAdd(RatAdd(RatMul(TorsoCenter(body, c), Rat(5, 10)),
                RatMul(LegCenter(body, "RHip", "RAnkle", c), Rat(2, 10))),
         RatMul(LegCenter(body, "LHip", "LAnkle", c), Rat(2, 10)))

\* C20 as stated: with a torso point present, estimate_COM returns per axis
\* the weighted sum torso * 0.5 + right leg * 0.2 + left leg * 0.2 divided
\* by 0.8.
C20_COMDividedByEightTenths ==
  \A r \in Results("estimate_COM") :
    HasTorso(pose.body) =>
      \A c \in {1, 2} : r[c] = RatDiv(WeightedSum(pose.body, c), Rat(8, 10))

\* C20, amended: with a torso point present, estimate_COM returns per axis
\* the weighted sum torso * 0.5 + right leg * 0.2 + left leg * 0.2 divided
\* by the total mass 0.5 + 0.2 + 0.2 + 0.1 = 1.0, the arm mass counted in
\* the divisor only.
C20_COMDividedByTotalMass ==
  \A r \in Results("estimate_COM") :
    HasTorso(pose.body) =>
      \A c \in {1, 2} : r[c] = RatDiv(WeightedSum(pose.body, c), R(1))

\* a body with a neck, a right leg with hip and ankle and a left leg with
\* the hip alone: the center of mass is the weighted sum, not the torso
\* center
C20_Witness ==
  /\ {"Neck", "RHip", "RAnkle", "LHip"} \subseteq DOMAIN pose.body
  /\ "LAnkle" \notin DOMAIN pose.body
  /\ \E r \in Results("estimate_COM") :
       /\ r = <<WeightedSum(pose.body, 1), WeightedSum(pose.body, 2)>>
       /\ r # <<TorsoCenter(pose.body, 1), TorsoCenter(pose.body, 2)>>

\* the calls that got past scale_face
FaceScaled(e) == Traversed(e) /\ e.out.at # "scale_face"

\* a hand or foot list moved onto the scaled reference: each present point p
\* becomes scaled_reference + (p - original_reference) * ratio
Realigned(points, scaled_reference, original_reference, ratio) ==
  [k \in 1..Len(points) |->
     IF IsNone(points[k]) THEN None
     ELSE Displace(scaled_reference, VecSub(points[k], original_reference), ratio)]

\* the list the call e returns for a cluster (points, ref), the unclamped
\* skeleton being st, is the realigned list when ref is in the input and in
\* st, and else the list as given; both clamped to the canvas
ClusterAligned(e, st, points, ref, ratio, returned) ==
  returned = CropAll(e.pre,
               IF ref \in DOMAIN e.pre.body /\ ref \in DOMAIN st
               THEN Realigned(points, st[ref], e.pre.body[ref], ratio)
               ELSE points)

\* the four clusters of the call e
ClustersAligned(e, st, hand, foot) ==
  /\ ClusterAligned(e, st, e.pre.left_hand, "LWrist", hand, e.out.pose.left_hand)
  /\ ClusterAligned(e, st, e.pre.right_hand, "RWrist", hand, e.out.pose.right_hand)
  /\ ClusterAligned(e, st, e.pre.left_foot, "LAnkle", foot, e.out.pose.left_foot)
  /\ ClusterAligned(e, st, e.pre.right_foot, "RAnkle", foot, e.out.pose.right_foot)

\* hand_ratio * height_ratio and foot_ratio * height_ratio of the call e
ClusterRatio(e, key) ==
  RatMul(Adjusted(e.pre, e.args[1], e.args[2])[key],
         Heights(e.pre, e.args[1], e.args[2]))

\* C21 as stated: past scale_face, scale returns, and for each hand or foot
\* whose wrist or ankle is in the input and in the scaled skeleton (an ankle
\* that is the anchor included) every present point p becomes, before
\* clamping, scaled_reference + (p - original_reference) * (hand or foot
\* adjusted ratio * height_ratio); a cluster whose reference is missing is
\* returned with its points as given.
C21_HandFootAlignment ==
  \A e \in Entries :
    FaceScaled(e) =>
      /\ Returns(e)
      /\ ClustersAligned(e, Unclamped(e), ClusterRatio(e, "hand_ratio"),
                         ClusterRatio(e, "foot_ratio"))

\* the base joint of the face landmark of index i < 48: the eyebrows and the
\* eyes hang on REye or LEye, the contour, the jaw and the nose on Nose
FaceBase(i) ==
  IF i \in 17..21 \cup 36..41 THEN "REye"
  ELSE IF i \in 22..26 \cup 42..47 THEN "LEye"
  ELSE "Nose"

\* the factor of the face landmark of index i
FaceFactor(i) ==
  IF i \in 0..5 \cup 11..16 THEN "face_contour_factor"
  ELSE IF i \in 6..10 THEN "jaw_factor"
  ELSE IF i \in 27..35 THEN "nose_factor"
  ELSE IF i \in 17..47 THEN "eye_factor"
  ELSE "mouth_factor"

\* the present landmarks among those of index 48..67 of a face
LipPoints(face) ==
  SelectSeq([k \in 1..20 |-> IF 48 + k <= Len(face) THEN face[48 + k] ELSE None],
            LAMBDA p : ~IsNone(p))

\* the centroid of the present landmarks 48..67 of a face, or None
MouthCentroid(face) ==
  IF LipPoints(face) = <<>> THEN None
  ELSE <<Mean([k \in 1..Len(LipPoints(face)) |-> LipPoints(face)[k][1]]),
         Mean([k \in 1..Len(LipPoints(face)) |-> LipPoints(face)[k][2]])>>

\* where the claim puts the present landmark p of index i, before clamping
AlignedLandmark(e, st, adjusted, height_ratio, centroid, i, p) ==
  IF i < 48
  THEN IF FaceBase(i) \in DOMAIN st /\ FaceBase(i) \in DOMAIN e.pre.body
       THEN Displace(st[FaceBase(i)], VecSub(p, e.pre.body[FaceBase(i)]),
                     RatMul(adjusted[FaceFactor(i)], height_ratio))
       ELSE p
  ELSE IF IsNone(centroid) THEN p
  ELSE Displace(Displace(st["Nose"], VecSub(centroid, e.pre.body["Nose"]), height_ratio),
                VecSub(p, centroid),
                RatMul(adjusted["mouth_factor"], height_ratio))

\* the face of the call e with every present landmark where the claim puts it
AlignedFace(e, st, adjusted, height_ratio, centroid) ==
  [k \in 1..Len(e.pre.face) |->
     IF IsNone(e.pre.face[k]) THEN None
     ELSE AlignedLandmark(e, st, adjusted, height_ratio, centroid, k - 1, e.pre.face[k])]

\* the face list after scale_face is the aligned face, and the returned
\* face is the aligned face clamped
FaceAligned(e, aligned) ==
  /\ e.post.face = aligned
  /\ Returns(e) => e.out.pose.face = CropAll(e.pre, aligned)

\* C22: wherever scale_face returns, every present face landmark p of a
\* sub-region whose base exists has become, before clamping, scaled_base +
\* (p - original_base) * factor * height_ratio: contour, jaw and nose on Nose
\* with their factors, eyebrows and eyes on REye or LEye with the eye factor,
\* the mouth region on the centroid of the original mouth landmarks (48..67),
\* moved to scaled(Nose) + (centroid - original(Nose)) * height_ratio, with
\* the mouth factor; the landmarks of a sub-region without base keep their
\* place; the returned face is this list clamped to the canvas.
C22_FaceAlignment ==
  \A e \in Entries :
    FaceScaled(e) =>
      FaceAligned(e, AlignedFace(e, Unclamped(e), Adjusted(e.pre, e.args[1], e.args[2]),
                                 Heights(e.pre, e.args[1], e.args[2]),
                                 MouthCentroid(e.pre.face)))

\* a returned face whose lips, pupil slot 68, right eye and nose bridge were
\* all moved by a rescaling call
C22_Witness ==
  \E e \in Entries :
    /\ Returns(e) /\ Rescales(e)
    /\ {"Nose", "REye", "LEye"} \subseteq DOMAIN e.out.pose.body
    /\ ~IsNone(MouthCentroid(e.pre.face))
    /\ \A k \in {31, 39, 51, 69} :
         /\ ~IsNone(e.pre.face[k])
         /\ e.post.face[k] # e.pre.face[k]
         /\ e.out.pose.face[k] = crop_point(e.pre, e.post.face[k])

\* the pairs of joints of each segment
HeadPairs ==
  {{"Neck", "Nose"}, {"Nose", "REye"}, {"Nose", "LEye"}, {"REye", "REar"}, {"LEye", "LEar"}}

TorsoPairs == {{"Neck", j} : j \in {"RShoulder", "LShoulder", "RHip", "LHip"}}

ArmPairs ==
  {{"RShoulder", "RElbow"}, {"RElbow", "RWrist"}, {"LShoulder", "LElbow"}, {"LElbow", "LWrist"}}

LegPairs ==
  {{"RHip", "RKnee"}, {"RKnee", "RAnkle"}, {"LHip", "LKnee"}, {"LKnee", "LAnkle"}}

\* the ratio key of an unordered pair of joints: that of its segment, and
\* head_ratio for a pair of no segment
PairKey(S) ==
  IF S \in TorsoPairs THEN "torso_ratio"
  ELSE IF S \in ArmPairs THEN "arm_ratio"
  ELSE IF S \in LegPairs THEN "leg_ratio"
  ELSE "head_ratio"

\* b is a connection of a in the adjacency the traversal follows
Adjacent(a, b) == \E k \in 1..Len(connections[a]) : connections[a][k] = b

\* the pair is a row of the table of get_edge_factor, in either order
Tabled(a, b) ==
  \E i \in 1..Len(connection_map) :
    {connection_map[i][1], connection_map[i][2]} = {a, b}

\* C23: get_edge_factor(a, b, f) is f[key] with the key of the unordered
\* pair {a, b}, so that both orders give the same factor; a pair of no
\* segment gives f[head_ratio]; every edge of the adjacency is a row of the
\* table, with the key of its segment (Neck-Nose and the Nose, eye and ear
\* edges head, Neck-shoulder and Neck-hip torso, shoulder-elbow-wrist arm,
\* hip-knee-ankle leg), so that no edge of the traversal takes the default.
C23_EdgeLookupSymmetricTotal ==
  \A r \in Results("get_edge_factor") :
    /\ r = EdgeFactors(source)[PairKey({source[1], source[2]})]
    /\ ~Tabled(source[1], source[2]) => r = EdgeFactors(source)["head_ratio"]
    /\ Adjacent(source[1], source[2]) =>
         /\ Tabled(source[1], source[2])
         /\ {source[1], source[2]} \in HeadPairs \cup TorsoPairs \cup ArmPairs \cup LegPairs

\* an arm edge looked up against the order of the table: the arm factor,
\* which is not the head factor
C23_Witness ==
  /\ Len(source) = 3 /\ source[1] = "RElbow" /\ source[2] = "RShoulder"
  /\ Results("get_edge_factor") = {EdgeFactors(source)["arm_ratio"]}
  /\ EdgeFactors(source)["arm_ratio"] # EdgeFactors(source)["head_ratio"]

\* the traversal of the call e, as it ended
Traversal(e) ==
  ScaledKeypoints(e.pre.body, Anchor(e.pre)[1],
                  Adjusted(e.pre, e.args[1], e.args[2]),
                  Heights(e.pre, e.args[1], e.args[2]))

\* no element occurs twice in the sequence
NoRepeat(seq) == \A i \in 1..Len(seq) : \A j \in 1..Len(seq) : seq[i] = seq[j] => i = j

Elements(seq) == {seq[i] : i \in 1..Len(seq)}

\* the loop has ended on an empty queue; no joint was written or enqueued
\* twice; every enqueued joint was dequeued once, at most 18 in all; the
\* scaled skeleton holds the joints written, in the order they were written
Bounded(st) ==
  /\ st.queue = <<>>
  /\ NoRepeat(st.assigned)
  /\ NoRepeat(st.dequeued)
  /\ Elements(st.dequeued) = Elements(st.assigned)
  /\ Len(st.dequeued) <= 18
  /\ DOMAIN st.scaled = Elements(st.assigned)
  /\ st.keys = st.assigned
  /\ st.visited = Elements(st.assigned)

\* C24: the traversal of scale ends for every input: each joint is enqueued
\* at most once, at most 18 joints are dequeued, and the scaled position of a
\* joint is written once, when the joint is first reached, and not written
\* again; the returned skeleton has the joints in the order they were written.
C24_TraversalBounded ==
  \A e \in Entries :
    Traversed(e) =>
      /\ Bounded(Traversal(e))
      /\ Returns(e) => e.out.pose.body_keys = Traversal(e).assigned

\* all 18 joints were dequeued
Complete(st) == Len(st.dequeued) = 18 /\ Elements(st.dequeued) = Joints

\* a returned call on a full skeleton whose traversal dequeued all 18 joints
C24_Witness ==
  \E e \in Entries :
    /\ Returns(e)
    /\ DOMAIN e.pre.body = Joints
    /\ Complete(Traversal(e))

\* C25 as stated: wherever scale returns, every joint of the input that a
\* path of present joints joins to the anchor is a key of the output
\* skeleton, whatever the coordinates, a joint that has the coordinates of
\* its parent in the traversal and the joints beyond it included.
C25_ReachableJointsKept ==
  \A e \in Entries :
    Returns(e) =>
      Connected(e.pre.body, {Anchor(e.pre)[1]}) \subseteq DOMAIN e.out.pose.body

\* the reference ratio of an age: torso_ratio / head_ratio of its profile
ReferenceRatio(a, gender) ==
  RatDiv(get_scaling_factors(a, gender).torso_ratio,
         get_scaling_factors(a, gender).head_ratio)

\* the first age of the run of ages that a's reference ratio is claimed to
\* be shared by: the brackets, 14-16 and 17-19 taken together
FirstOfRatio(a) ==
  IF a <= 5 THEN 0 ELSE IF a <= 7 THEN 6 ELSE IF a <= 10 THEN 8
  ELSE IF a <= 13 THEN 11 ELSE IF a <= 19 THEN 14 ELSE 20

\* C26: an age that guess_age returns is one of 0, 6, 8, 11, 14, 20: the
\* reference ratio is the same inside each bracket, the same for 14-16 and
\* 17-19 and the same for both genders; and the age returned is the same
\* whether the reference gender is male or female.
C26_GuessAgeRange ==
  \A r \in Results("guess_age") :
    r # None =>
      /\ r[1] \in {0, 6, 8, 11, 14, 20}
      /\ \A g \in Genders : guess_age([pose EXCEPT !.input_gender = Some(g)]) = r
      /\ \A a \in 0..20 : \A g \in Genders :
           ReferenceRatio(a, g) = ReferenceRatio(FirstOfRatio(a), "female")

\* 14 is returned for a man whose ratio lies nearest to that of the ages 14
\* to 19, all at the same difference
C26_Witness ==
  /\ pose.input_gender = Some("male")
  /\ Results("guess_age") = {Some(14)}
  /\ \A a \in 15..19 : AgeDifference(pose.body, a) = AgeDifference(pose.body, 14)
  /\ RatLT(AgeDifference(pose.body, 14), AgeDifference(pose.body, 20))

\* two landmark lists of the same length, with the same slots present
SameShape(given, returned) ==
  /\ Len(returned) = Len(given)
  /\ \A k \in 1..Len(given) : IsNone(returned[k]) <=> IsNone(given[k])

\* C27: for each of face, left hand, right hand, left foot and right foot,
\* the list of a returned Pose has the length of the input's list, and slot
\* i is present in it exactly when slot i is present in the input.
C27_LandmarkShape ==
  \A e \in Entries :
    Returns(e) =>
      /\ SameShape(e.pre.face, e.out.pose.face)
      /\ SameShape(e.pre.left_hand, e.out.pose.left_hand)
      /\ SameShape(e.pre.right_hand, e.out.pose.right_hand)
      /\ SameShape(e.pre.left_foot, e.out.pose.left_foot)
      /\ SameShape(e.pre.right_foot, e.out.pose.right_foot)

\* a list with a slot present and a slot absent
Mixed(points) ==
  /\ \E k \in 1..Len(points) : IsNone(points[k])
  /\ \E k \in 1..Len(points) : ~IsNone(points[k])

\* a returned Pose whose face, left hand and left foot, each with present
\* and absent slots, were all moved
C27_Witness ==
  \E e \in Entries :
    /\ Returns(e)
    /\ Mixed(e.pre.face) /\ Mixed(e.pre.left_hand) /\ Mixed(e.pre.left_foot)
    /\ e.out.pose.face # e.pre.face
    /\ e.out.pose.left_hand # e.pre.left_hand
    /\ e.out.pose.left_foot # e.pre.left_foot

\* the sub-regions whose index set holds the index i
RegionsOf(i) ==
  {r \in 1..Len(regions) : \E n \in 1..Len(regions[r][1]) : regions[r][1][n] = i}

\* the landmark p moved once by the sub-region r, from p itself: on the base
\* joint of r, or for the mouth on the centroid; p where r has no base
MovedOnce(e, st, adjusted, height_ratio, centroid, r, p) ==
  IF regions[r][2] = ""
  THEN IF IsNone(centroid) THEN p
       ELSE Displace(Displace(st["Nose"], VecSub(centroid, e.pre.body["Nose"]), height_ratio),
                     VecSub(p, centroid), RatMul(adjusted[regions[r][3]], height_ratio))
  ELSE IF regions[r][2] \in DOMAIN st /\ regions[r][2] \in DOMAIN e.pre.body
  THEN Displace(st[regions[r][2]], VecSub(p, e.pre.body[regions[r][2]]),
                RatMul(adjusted[regions[r][3]], height_ratio))
  ELSE p

\* every index 0..69 lies in one sub-region, and every present landmark of
\* the call e is, after scale_face, the input landmark moved once by it
Partitioned(e, st, adjusted, height_ratio, centroid) ==
  /\ \A i \in 0..69 : Cardinality(RegionsOf(i)) = 1
  /\ \A k \in 1..Len(e.pre.face) :
       ~IsNone(e.pre.face[k]) =>
         \E r \in RegionsOf(k - 1) :
           e.post.face[k] = MovedOnce(e, st, adjusted, height_ratio, centroid, r, e.pre.face[k])

\* C28: the index sets of contour, jaw, right and left eyebrow, nose, right
\* and left eye and mouth are pairwise disjoint and cover 0..69, so that in
\* one call each present face landmark is moved once when its sub-region has
\* its base, from its coordinates in the input of the call, and else left.
C28_FaceRegionsPartition ==
  \A e \in Entries :
    FaceScaled(e) =>
      Partitioned(e, Unclamped(e), Adjusted(e.pre, e.args[1], e.args[2]),
                  Heights(e.pre, e.args[1], e.args[2]), MouthCentroid(e.pre.face))

\* a rescaling call on a 70-point face that moved a landmark of each of the
\* eight sub-regions
C28_Witness ==
  \E e \in Entries :
    /\ Returns(e) /\ Rescales(e)
    /\ Len(e.pre.face) = 70
    /\ UNION {RegionsOf(k - 1) :
                k \in {n \in 1..70 : ~IsNone(e.pre.face[n]) /\ e.post.face[n] # e.pre.face[n]}}
         = 1..8

(***************************************************************************)
(* The OpenPose container (src/OpenPose.py): a list of poses on one        *)
(* canvas, and the operations that take an index.  The code's index i is   *)
(* position i + 1 of the sequence.                                         *)
(*   openpose  the container                                               *)
(*   log       the last operation: fn, its index, the container before     *)
(*             (pre) and after (post), what it returned (result) and the   *)
(*             exception it raised (error, "" when it returned)            *)
(*   calls     the number of operations so far                             *)
(***************************************************************************)
\* the poses of the containers: one that scale returns for, one whose right
\* foot hangs on the anchor, one without support joint, one without wrists
Crowd ==
  {Decoded(Base), Decoded([Base EXCEPT !.limbs = "all"]),
   Decoded([Base EXCEPT !.present = {"Nose", "REye", "LEye"}]),
   Decoded([Base EXCEPT !.present = Joints \ {"LWrist", "RWrist"}])}

\* the length of the longest list of people a container starts with
MaxPeople == 2

Containers ==
  {[people |-> ps, canvas_width |-> CanvasWidth("large"),
    canvas_height |-> CanvasHeight("large")] :
     ps \in UNION {[1..n -> Crowd] : n \in 0..MaxPeople}}

OpenPoseInit ==
  /\ openpose \in Containers
  /\ pose = None
  /\ source = None
  /\ log = <<>>
  /\ calls = 0

\* 0 <= index < len(self.people)
InRange(self, index) == 0 <= index /\ index < Len(self.people)

\* get_pose: what it returns
get_pose(self, index) ==
  IF InRange(self, index) THEN Some(self.people[index + 1]) ELSE None

\* remove_pose: the container after the call
remove_pose(self, index) ==
  IF InRange(self, index)
  THEN [self EXCEPT !.people = [k \in 1..(Len(self.people) - 1) |->
                                  IF k <= index THEN self.people[k]
                                  ELSE self.people[k + 1]]]
  ELSE self

\* keep_pose: the container after the call
keep_pose(self, index) ==
  IF InRange(self, index)
  THEN [self EXCEPT !.people = <<self.people[index + 1]>>]
  ELSE self

\* people[index] = pose.scale(...), r being the outcome of pose.scale: the
\* assignment is made when scale returns; when it raises, the list keeps
\* the Pose object, which scale_face may have written into
Assigned(self, index, r) ==
  IF r.kind = "pose"
  THEN [after |-> [self EXCEPT !.people[index + 1] = r.pose], error |-> ""]
  ELSE [after |-> [self EXCEPT !.people[index + 1] = Written(@, r)], error |-> r.error]

\* scale_pose: the container after the call, and the exception raised
scale_pose(self, index, target_gender, target_age) ==
  IF InRange(self, index)
  THEN Assigned(self, index, scale(self.people[index + 1], target_gender, target_age))
  ELSE [after |-> self, error |-> ""]

\* one operation on the container
Operate(fn, index, after, result, error) ==
  /\ calls < MaxCalls
  /\ openpose' = after
  /\ log' = <<[fn |-> fn, index |-> index, pre |-> openpose, post |-> after,
               result |-> result, error |-> error]>>
  /\ calls' = calls + 1
  /\ UNCHANGED <<pose, source>>

GetPose(index) ==
  Operate("get_pose", index, openpose, get_pose(openpose, index), "")

RemovePose(index) ==
  Operate("remove_pose", index, remove_pose(openpose, index), None, "")

KeepPose(index) ==
  Operate("keep_pose", index, keep_pose(openpose, index), None, "")

\* the outcome r of scale_pose, recorded
Scaling(index, target, r) ==
  Operate("scale_pose", index, r.after, target, r.error)

ScalePose(index, target_gender, target_age) ==
  /\ IF InRange(openpose, index) THEN Fits(openpose.people[index + 1]) ELSE TRUE
  /\ Scaling(index, <<target_gender, target_age>>,
             scale_pose(openpose, index, target_gender, target_age))

\* points_to_flat of Pose.to_json: x, y, 1.0 for a point, 0.0, 0.0, 0.0 for
\* a missing one
points_to_flat(points) ==
  [k \in 1..(3 * Len(points)) |->
     IF points[((k - 1) \div 3) + 1] = None THEN R(0)
     ELSE IF (k - 1) % 3 = 2 THEN R(1)
     ELSE points[((k - 1) \div 3) + 1][((k - 1) % 3) + 1]]

\* Pose.to_json: pose_keypoints_2d holds x, y, 1.0 of the joints of the body
\* mapping, in the order of the mapping and nothing for a joint it lacks
to_json(self) ==
  [pose_keypoints_2d |->
     points_to_flat([k \in 1..Len(self.body_keys) |-> self.body[self.body_keys[k]]]),
   face_keypoints_2d |-> points_to_flat(self.face),
   hand_right_keypoints_2d |-> points_to_flat(self.right_hand),
   hand_left_keypoints_2d |-> points_to_flat(self.left_hand),
   foot_right_keypoints_2d |-> points_to_flat(self.right_foot),
   foot_left_keypoints_2d |-> points_to_flat(self.left_foot)]

\* flat_to_points of Pose.from_json
flat_to_points(flat_list) ==
  [i \in 1..(Len(flat_list) \div 3) |->
     IF RatLT(R(0), flat_list[3 * i]) THEN <<flat_list[3 * i - 2], flat_list[3 * i - 1]>>
     ELSE None]

\* the joints Pose.from_json reads out of pose_keypoints_2d: the name at
\* position i of the canonical list (the list of Pose.py 80-85 is that of
\* COCO_KEYPOINTS_ORDER) where the confidence at i * 3 + 2 is positive
DecodedKeys(keypoints) ==
  KeysIn(COCO_KEYPOINTS_ORDER,
         {COCO_KEYPOINTS_ORDER[i] : i \in {k \in 1..Len(COCO_KEYPOINTS_ORDER) :
                                             RatLT(R(0), keypoints[3 * k])}})

DecodedBody(keypoints, keys) ==
  [key \in {keys[k] : k \in 1..Len(keys)} |->
     LET i == CHOOSE k \in 1..Len(COCO_KEYPOINTS_ORDER) : COCO_KEYPOINTS_ORDER[k] = key
     IN <<keypoints[3 * i - 2], keypoints[3 * i - 1]>>]

\* Pose.from_json: every index i * 3 + 2 of the 18 names is read, so a list
\* shorter than 54 raises IndexError
from_json(data, canvas_width, canvas_height) ==
  IF Len(data.pose_keypoints_2d) < 3 * Len(COCO_KEYPOINTS_ORDER)
  THEN [kind |-> "error", error |-> "IndexError"]
  ELSE [kind |-> "pose", error |-> "",
        pose |-> [body |-> DecodedBody(data.pose_keypoints_2d,
                                       DecodedKeys(data.pose_keypoints_2d)),
                  body_keys |-> DecodedKeys(data.pose_keypoints_2d),
                  face |-> flat_to_points(data.face_keypoints_2d),
                  left_hand |-> flat_to_points(data.hand_left_keypoints_2d),
                  right_hand |-> flat_to_points(data.hand_right_keypoints_2d),
                  left_foot |-> flat_to_points(data.foot_left_keypoints_2d),
                  right_foot |-> flat_to_points(data.foot_right_keypoints_2d),
                  canvas_width |-> canvas_width, canvas_height |-> canvas_height,
                  input_age |-> None, input_gender |-> None]]

\* the outcome r of a decoding, recorded
Decoding(index, r) == Operate("from_json", index, openpose, r, r.error)

\* people[index] written out by to_json and read back by from_json
RoundTrip(index) ==
  /\ InRange(openpose, index)
  /\ Decoding(index, from_json(to_json(openpose.people[index + 1]),
                               openpose.canvas_width, openpose.canvas_height))

OpenPoseNext ==
  \/ \E index \in -1..(MaxPeople + 1) : GetPose(index)
  \/ \E index \in -1..(MaxPeople + 1) : RemovePose(index)
  \/ \E index \in -1..(MaxPeople + 1) : KeepPose(index)
  \/ \E index \in -1..(MaxPeople + 1) :
       \E t \in {<<"female", 8>>, <<"unknown", 8>>} : ScalePose(index, t[1], t[2])
  \/ \E index \in 0..(MaxPeople - 1) : RoundTrip(index)

OpenPoseSpec == OpenPoseInit /\ [][OpenPoseNext]_vars

\* the operation e had an index of the list
Indexed(e) == InRange(e.pre, e.index)

\* every entry of the list but that of index i is as before
OthersKept(e) ==
  /\ Len(e.post.people) = Len(e.pre.people)
  /\ \A k \in 1..Len(e.pre.people) :
       k # e.index + 1 => e.post.people[k] = e.pre.people[k]

\* C29 as stated: scale_pose with an index of the list replaces only
\* people[index], by the Pose scale returns, and leaves the length, the other
\* entries and the canvas of the container as they were; with an index out
\* of the list scale_pose, remove_pose and keep_pose leave the container as
\* it was and get_pose returns None; when Pose.scale raises, people is as it
\* was.
C29_ScalePoseFrame ==
  \A e \in Entries :
    /\ e.fn = "scale_pose" /\ Indexed(e) /\ e.error = "" =>
         /\ OthersKept(e)
         /\ e.post.people[e.index + 1]
              = scale(e.pre.people[e.index + 1], e.result[1], e.result[2]).pose
         /\ e.post.canvas_width = e.pre.canvas_width
         /\ e.post.canvas_height = e.pre.canvas_height
    /\ ~Indexed(e) => e.post = e.pre /\ (e.fn = "get_pose" => e.result = None)
    /\ e.fn = "scale_pose" /\ e.error # "" => e.post.people = e.pre.people

\* the Pose the round trip of e started from
Original(e) == e.pre.people[e.index + 1]

\* C30 as stated: from_json(p.to_json(), canvas_width, canvas_height) is a
\* Pose whose body maps the joint names of p to the coordinates they have in
\* p, also when joints are absent and when p came out of scale with its body
\* in traversal order.
C30_JsonRoundTrip ==
  \A e \in Entries :
    e.fn = "from_json" =>
      /\ e.error = ""
      /\ e.result.pose.body = Original(e).body
====
